---- MODULE Spec2Model ----
(***************************************************************************)
(* Model of the Telegram intake pipeline of smart-grievance-system:        *)
(* the webhook gate, the per-chat session FSM, the identity resolver, the  *)
(* ticket writer (src/src/server.ts, src/src/db.ts) and the two status     *)
(* normalizers (server track endpoint, client dashboard).                  *)
(*                                                                         *)
(* Texts are sequences of one-character strings so that trim, lower-casing *)
(* prefix tests and length checks are computed as the code computes them.  *)
(* SQL statements are modelled by their row-level meaning; the one         *)
(* statement SQLite rejects (the gate's SELECT) has both outcomes.         *)
(***************************************************************************)
EXTENDS Integers, Sequences, FiniteSets, TLC

\* ------------------------------------------------------------------ bounds
MaxUpdateId == 2
MaxInflight == 2
MaxClock == 2
MaxCrashes == 1
\* handlers that may be past their writes, waiting for their send, at a time
MaxSending == 1

NULL == "null"

\* ------------------------------------------------------------ text helpers
UpperChars == <<"A","B","C","D","E","F","G","H","I","J","K","L","M",
                "N","O","P","Q","R","S","T","U","V","W","X","Y","Z">>
LowerChars == <<"a","b","c","d","e","f","g","h","i","j","k","l","m",
                "n","o","p","q","r","s","t","u","v","w","x","y","z">>
DigitChars == <<"0","1","2","3","4","5","6","7","8","9">>

lowerChar(c) ==
  IF \E i \in 1..26 : UpperChars[i] = c
  THEN LowerChars[CHOOSE i \in 1..26 : UpperChars[i] = c]
  ELSE c

toLowerCase(s) == [i \in 1..Len(s) |-> lowerChar(s[i])]

RECURSIVE trimStart(_)
trimStart(s) ==
  IF Len(s) > 0 /\ s[1] = " " THEN trimStart(Tail(s)) ELSE s

RECURSIVE trimEnd(_)
trimEnd(s) ==
  IF Len(s) > 0 /\ s[Len(s)] = " " THEN trimEnd(SubSeq(s, 1, Len(s) - 1)) ELSE s

trim(s) == trimEnd(trimStart(s))

startsWith(s, p) == Len(s) >= Len(p) /\ SubSeq(s, 1, Len(p)) = p

\* text.split(/\s+/)[1]: the second whitespace-separated piece of a trimmed
\* text, or the empty text when there is none (both are falsy in the caller).
RECURSIVE dropWord(_)
dropWord(s) == IF Len(s) > 0 /\ s[1] # " " THEN dropWord(Tail(s)) ELSE s

RECURSIVE takeWord(_)
takeWord(s) ==
  IF Len(s) > 0 /\ s[1] # " " THEN <<s[1]>> \o takeWord(Tail(s)) ELSE <<>>

secondWord(s) ==
  LET rest == trimStart(dropWord(s))
  IN IF Len(rest) = 0 THEN <<>> ELSE takeWord(rest)

\* Number.prototype.toString(36).toUpperCase() for 0 <= n < 36*36
Base36Chars == DigitChars \o UpperChars
toBase36Upper(n) ==
  IF n < 36 THEN <<Base36Chars[n + 1]>>
  ELSE <<Base36Chars[(n \div 36) + 1], Base36Chars[(n % 36) + 1]>>

\* Number.prototype.toFixed(6) for whole numbers 0 <= n < 100
toFixed6(n) ==
  (IF n < 10 THEN <<DigitChars[n + 1]>>
   ELSE <<DigitChars[(n \div 10) + 1], DigitChars[(n % 10) + 1]>>)
  \o <<".","0","0","0","0","0","0">>

slice(s, n) == IF Len(s) <= n THEN s ELSE SubSeq(s, 1, n)

\* ------------------------------------------------------ status normalizers
Stages == {"submitted", "accepted", "in_progress", "closed"}

\* grievances.status CHECK list of the schema
SchemaStatuses == {"submitted", "under_review", "in_progress",
                   "awaiting_confirmation", "closed", "escalated", "reopened"}
\* values the normalizers also test for (older schemas)
LegacyStatuses == SchemaStatuses \cup {"resolved", "assigned", "rejected"}
CoarseStatuses == {NULL, "", "pending", "accepted", "in_progress", "closed", "rejected"}

\* String(grievance.complaint_status ?? "")
coarseString(c) == IF c = NULL THEN "" ELSE c

\* the stage expression without its test for the legacy value "resolved"
trackingStage_noResolved(status, complaint_status) ==
  LET complaintStatus == coarseString(complaint_status) IN
  IF complaintStatus = "closed" \/ status = "closed" THEN "closed"
  ELSE IF complaintStatus = "in_progress" \/ status = "in_progress"
          \/ status = "awaiting_confirmation" THEN "in_progress"
  ELSE IF complaintStatus = "accepted" \/ status = "under_review"
          \/ status = "assigned" \/ status = "escalated" \/ status = "reopened"
       THEN "accepted"
  ELSE "submitted"

\* server: tracking_stage of GET /api/grievances/track/:ticket
trackingStage(status, complaint_status) ==
  LET complaintStatus == coarseString(complaint_status) IN
  IF complaintStatus = "closed" \/ status = "closed" THEN "closed"
  ELSE IF status = "resolved" THEN "closed"
  ELSE IF complaintStatus = "in_progress" \/ status = "in_progress"
          \/ status = "awaiting_confirmation" THEN "in_progress"
  ELSE IF complaintStatus = "accepted" \/ status = "under_review"
          \/ status = "assigned" \/ status = "escalated" \/ status = "reopened"
       THEN "accepted"
  ELSE "submitted"

\* client: normalizeStatus of the dashboard page
normalizeStatus(status, complaint_status) ==
  IF complaint_status = "accepted" THEN "accepted"
  ELSE IF complaint_status = "in_progress" THEN "in_progress"
  ELSE IF complaint_status = "closed" THEN "closed"
  ELSE IF status = "resolved" THEN "closed"
  ELSE IF status = "under_review" \/ status = "assigned"
          \/ status = "escalated" \/ status = "reopened" THEN "accepted"
  ELSE IF status = "in_progress" \/ status = "awaiting_confirmation" THEN "in_progress"
  ELSE IF status = "closed" THEN "closed"
  ELSE "submitted"


\* ------------------------------------------------------------ input domain
\* message.chat.id values; String(id) is computed by chatIdString
ChatIds == {555}

natDigits(n) ==
  IF n < 10 THEN <<DigitChars[n + 1]>>
  ELSE IF n < 100 THEN <<DigitChars[(n \div 10) + 1], DigitChars[(n % 10) + 1]>>
  ELSE <<DigitChars[(n \div 100) + 1], DigitChars[((n \div 10) % 10) + 1],
         DigitChars[(n % 10) + 1]>>

\* String(message.chat.id)
chatIdString(n) == IF n < 0 THEN <<"-">> \o natDigits(0 - n) ELSE natDigits(n)

\* the command prefixes the message handler tests for
K_start == <<"/","s","t","a","r","t">>
\* (misspelt command prefixes)
K_new_typo == <<"/","n","w","e">>
K_help_typo == <<"/","h","l","e","p">>
K_new == <<"/","n","e","w">>
K_help == <<"/","h","e","l","p">>
K_cancel == <<"/","c","a","n","c","e","l">>
K_status == <<"/","s","t","a","t","u","s">>

\* message texts of the input domain
T_new == <<"/","N","E","W">>
T_start == <<"/","s","t","a","r","t">>
T_help == <<"/","h","e","l","p">>
T_cancel == <<"/","c","a","n","c","e","l">>
T_status == <<"/","s","t","a","t","u","s">>
T_statusT == <<"/","s","t","a","t","u","s"," ","T","G","M","-","0">>
T_statusW == <<"/","s","t","a","t","u","s"," ","G","R","V","-","P","N","E","0","0","1">>
T_en == <<"e","n">>
T_eng == <<" ","E","n","g"," ">>
T_xx == <<"x","x">>
T_nine == <<"n","o"," ","w","a","t","e","r","!">>
T_ten == <<" ","p","i","p","e"," ","b","u","r","s","t"," ">>
T_none == <<>>

D_langHi == <<"l","a","n","g",":","h","i">>
D_langXx == <<"l","a","n","g",":","x","x">>
D_cat3 == <<"c","a","t",":","3">>
D_cat9 == <<"c","a","t",":","9">>
D_cancel == <<"c","o","n","f","i","r","m",":","c","a","n","c","e","l">>
D_submit == <<"c","o","n","f","i","r","m",":","s","u","b","m","i","t">>
D_other == <<"o","k">>

P_lang == <<"l","a","n","g",":">>
P_cat == <<"c","a","t",":">>

NoLocation == {}
GeoLocation == {[latitude |-> 18, longitude |-> 73]}

MessageTexts == {T_new, T_start, T_help, T_cancel, T_status, T_statusT, T_statusW,
                 T_en, T_eng, T_xx, T_nine, T_ten}
CallbackData == {D_langHi, D_langXx, D_cat3, D_cat9, D_cancel, D_submit, D_other}

\* TelegramUpdate bodies (update_id is given separately)
MessageUpdates ==
  [kind : {"message"}, chat : ChatIds, text : MessageTexts, location : {NoLocation},
   data : {T_none}]
  \cup [kind : {"message"}, chat : ChatIds, text : {T_none}, location : {GeoLocation},
        data : {T_none}]
CallbackUpdates ==
  [kind : {"callback"}, chat : ChatIds, text : {T_none}, location : {NoLocation},
   data : CallbackData]

\* request header x-telegram-bot-api-secret-token
SecretHeaders == {"", "s3cret", "wrong"}

\* ------------------------------------------------------------------- store
NoUser == 0
NoChat == <<>>
NoLanguage == <<>>
NoTicket == <<>>

\* grievance_categories after seed (AUTOINCREMENT ids in insertion order)
categoryNames == <<"Roads & Potholes", "Waste Management", "Street Lights",
                   "Water Supply", "Drainage", "Public Safety">>

TELEGRAM_LANGUAGES == {<<"e","n">>, <<"h","i">>, <<"m","r">>}

EmptyDraft == [k \in {} |-> 0]
Has(d, k) == k \in DOMAIN d
\* (an assignment that stores nothing)
Put_drop(d, k, v) == d
Put(d, k, v) == [x \in (DOMAIN d) \cup {k} |-> IF x = k THEN v ELSE d[x]]
\* (a delete that removes nothing)
Del_keep(d, k) == d
Del(d, k) == [x \in (DOMAIN d) \ {k} |-> d[x]]

\* JSON.stringify(session.draft ?? {}): the own properties as key/value pairs
stringifyDraft(d) == {<<k, d[k]>> : k \in DOMAIN d}

\* parseDraft(JSON text): the object the pairs describe.  The two INSERTs into
\* telegram_sessions always bind JSON.stringify(...), so the column is never NULL.
parseDraft(raw) ==
  [k \in {p[1] : p \in raw} |-> (CHOOSE p \in raw : p[1] = k)[2]]

parseTelegramLanguage(input) ==
  LET value == toLowerCase(trim(input)) IN
  IF value \in TELEGRAM_LANGUAGES THEN value
  ELSE IF value \in {<<"e","n","g","l","i","s","h">>, <<"e","n","g">>} THEN <<"e","n">>
  ELSE IF value \in {<<"h","i","n","d","i">>, <<"h","i","n">>} THEN <<"h","i">>
  ELSE IF value \in {<<"m","a","r","a","t","h","i">>, <<"m","a","r">>} THEN <<"m","r">>
  ELSE NoLanguage

sessionRow(session) ==
  [user_id |-> session.userId, state |-> session.state,
   language |-> session.language, draft_json |-> stringifyDraft(session.draft)]

\* (a missing row created with the schema's default state instead)
getTelegramSession_idle(sessions, chatId) ==
  IF chatId \notin DOMAIN sessions
  THEN LET session == [chatId |-> chatId, userId |-> NoUser, state |-> "idle",
                       language |-> <<"e","n">>, draft |-> EmptyDraft]
       IN [session |-> session, sessions |-> (chatId :> sessionRow(session)) @@ sessions]
  ELSE [session |-> [chatId |-> chatId, userId |-> sessions[chatId].user_id,
                     state |-> sessions[chatId].state,
                     language |-> sessions[chatId].language,
                     draft |-> parseDraft(sessions[chatId].draft_json)],
        sessions |-> sessions]

getTelegramSession(sessions, chatId) ==
  IF chatId \notin DOMAIN sessions
  THEN LET session == [chatId |-> chatId, userId |-> NoUser,
                       state |-> "awaiting_language", language |-> <<"e","n">>,
                       draft |-> EmptyDraft]
       IN [session |-> session, sessions |-> (chatId :> sessionRow(session)) @@ sessions]
  ELSE LET row == sessions[chatId]
       IN [session |-> [chatId |-> chatId, userId |-> row.user_id, state |-> row.state,
                        language |-> IF row.language \in TELEGRAM_LANGUAGES
                                     THEN row.language ELSE <<"e","n">>,
                        draft |-> parseDraft(row.draft_json)],
           sessions |-> sessions]

saveTelegramSession(sessions, session) ==
  (session.chatId :> sessionRow(session)) @@ sessions

\* chatId.replace(/[^a-zA-Z0-9_-]/g, "_")
safeChar(c) ==
  IF \/ \E i \in 1..26 : UpperChars[i] = c \/ LowerChars[i] = c
     \/ \E i \in 1..10 : DigitChars[i] = c
     \/ c \in {"_", "-"}
  THEN c ELSE "_"

fallbackEmail(chatId) ==
  <<"t","g","_">> \o [i \in 1..Len(chatId) |-> safeChar(chatId[i])]
  \o <<"@","t","e","l","e","g","r","a","m",".","l","o","c","a","l">>

\* the resolver without the UPDATE that binds an account found by its email
ensureTelegramCitizen_noBackfill(us, chatId) ==
  LET existing == {i \in 1..Len(us) : us[i].telegram_chat_id = chatId}
      byEmail == {i \in 1..Len(us) : us[i].email = fallbackEmail(chatId)}
  IN IF existing # {} THEN [id |-> CHOOSE i \in existing : TRUE, users |-> us]
     ELSE IF byEmail # {} THEN [id |-> CHOOSE i \in byEmail : TRUE, users |-> us]
     ELSE [id |-> Len(us) + 1,
           users |-> Append(us, [email |-> fallbackEmail(chatId), role |-> "citizen",
                                 telegram_chat_id |-> chatId])]

\* the resolver without the lookup by placeholder email
ensureTelegramCitizen_noEmailLookup(us, chatId) ==
  LET existing == {i \in 1..Len(us) : us[i].telegram_chat_id = chatId}
  IN IF existing # {} THEN [id |-> CHOOSE i \in existing : TRUE, users |-> us]
     ELSE [id |-> Len(us) + 1,
           users |-> Append(us, [email |-> fallbackEmail(chatId), role |-> "citizen",
                                 telegram_chat_id |-> chatId])]

\* (a resolver that hands out the first account without binding it)
ensureTelegramCitizen_firstRow(us, chatId) == [id |-> 1, users |-> us]

\* users rows are kept in id order: row i has id i (AUTOINCREMENT, no deletes)
ensureTelegramCitizen(us, chatId) ==
  LET existing == {i \in 1..Len(us) : us[i].telegram_chat_id = chatId}
      byEmail == {i \in 1..Len(us) : us[i].email = fallbackEmail(chatId)}
  IN IF existing # {} THEN [id |-> CHOOSE i \in existing : TRUE, users |-> us]
     ELSE IF byEmail # {}
     THEN LET id == CHOOSE i \in byEmail : TRUE
          IN [id |-> id, users |-> [us EXCEPT ![id].telegram_chat_id = chatId]]
     ELSE [id |-> Len(us) + 1,
           users |-> Append(us, [email |-> fallbackEmail(chatId), role |-> "citizen",
                                 telegram_chat_id |-> chatId])]

\* ---------------------------------------------------------------- replies
Reply(key) == [key |-> key, ticket |-> NoTicket, status |-> ""]
NoReply == Reply("none")

\* ------------------------------------------------------------ ticket writer
ticketNumber(now) == <<"T","G","M","-">> \o toBase36Upper(now)

\* the draft values the INSERT binds: session.draft.latitude ?? null
orNull(d, k) == IF Has(d, k) THEN {d[k]} ELSE {}

\* !session.userId || !draft.categoryId || !draft.description || !draft.location
submitPreconditionFails(session) ==
  \/ session.userId = NoUser
  \/ ~Has(session.draft, "categoryId") \/ session.draft["categoryId"] = 0
  \/ ~Has(session.draft, "description") \/ Len(session.draft["description"]) = 0
  \/ ~Has(session.draft, "location") \/ Len(session.draft["location"]) = 0

\* result: ticket (NoTicket for null), threw (the INSERT violated the UNIQUE
\* ticket_number constraint), the session object and the two tables afterwards
\* (a ticket writer that inserts the row and leaves the session as it was)
submitTelegramComplaint_noReset(session, chatId, sessions, grievs, now) ==
  IF submitPreconditionFails(session)
  THEN [ticket |-> NoTicket, threw |-> FALSE, session |-> session,
        sessions |-> sessions, grievances |-> grievs]
  ELSE [ticket |-> ticketNumber(now), threw |-> FALSE, session |-> session,
        sessions |-> sessions,
        grievances |-> Append(grievs,
          [ticket_number |-> ticketNumber(now), citizen_id |-> session.userId,
           category_id |-> session.draft["categoryId"],
           title |-> slice(session.draft["description"], 100),
           description |-> session.draft["description"],
           location |-> session.draft["location"],
           latitude |-> orNull(session.draft, "latitude"),
           longitude |-> orNull(session.draft, "longitude"),
           priority |-> "medium", status |-> "submitted",
           complaint_status |-> "pending",
           source_channel |-> "telegram", source_user_id |-> chatId])]

\* (a ticket writer that clears the session when its precondition fails)
submitTelegramComplaint_resetsOnFailure(session, chatId, sessions, grievs, now) ==
  IF submitPreconditionFails(session)
  THEN [ticket |-> NoTicket, threw |-> FALSE,
        session |-> [session EXCEPT !.state = "idle", !.draft = EmptyDraft],
        sessions |-> saveTelegramSession(sessions,
                       [session EXCEPT !.state = "idle", !.draft = EmptyDraft]),
        grievances |-> grievs]
  ELSE submitTelegramComplaint_noReset(session, chatId, sessions, grievs, now)

submitTelegramComplaint(session, chatId, sessions, grievs, now) ==
  IF submitPreconditionFails(session)
  THEN [ticket |-> NoTicket, threw |-> FALSE, session |-> session,
        sessions |-> sessions, grievances |-> grievs]
  ELSE LET ticket == ticketNumber(now)
           row == [ticket_number |-> ticket,
                   citizen_id |-> session.userId,
                   category_id |-> session.draft["categoryId"],
                   title |-> slice(session.draft["description"], 100),
                   description |-> session.draft["description"],
                   location |-> session.draft["location"],
                   latitude |-> orNull(session.draft, "latitude"),
                   longitude |-> orNull(session.draft, "longitude"),
                   priority |-> "medium", status |-> "submitted",
                   complaint_status |-> "pending",
                   source_channel |-> "telegram", source_user_id |-> chatId]
       IN IF \E i \in 1..Len(grievs) : grievs[i].ticket_number = ticket
          THEN [ticket |-> NoTicket, threw |-> TRUE, session |-> session,
                sessions |-> sessions, grievances |-> grievs]
          ELSE LET s1 == [session EXCEPT !.state = "idle", !.draft = EmptyDraft]
               IN [ticket |-> ticket, threw |-> FALSE, session |-> s1,
                   sessions |-> saveTelegramSession(sessions, s1),
                   grievances |-> Append(grievs, row)]

\* --------------------------------------------------- handleTelegramMessage
\* (a status lookup by ticket number alone)
statusQueryRows_anyOwner(grievs, ticket, chatId) ==
  {i \in 1..Len(grievs) : grievs[i].ticket_number = ticket}

\* SELECT ... FROM grievances WHERE ticket_number = ? AND source_channel =
\* 'telegram' AND source_user_id = ?
statusQueryRows(grievs, ticket, chatId) ==
  {i \in 1..Len(grievs) :
     /\ grievs[i].ticket_number = ticket
     /\ grievs[i].source_channel = "telegram"
     /\ grievs[i].source_user_id = chatId}

\* The synchronous part of the handler, up to its one awaited send.
\* result: the tables afterwards, the reply handed to sendTelegramMessage,
\* saved (saveTelegramSession was called), resolved (ids returned by
\* ensureTelegramCitizen).
\* (a threshold one character lower)
MinDescription_short == 10 - 1
MinDescription == 10
\* (a location test that is off by one: shorter texts pass)
MinLocation_short == 3 - 1
MinLocation == 3

handleTelegramMessage(update, us, sessions, grievs) ==
  LET chatId == chatIdString(update.chat)
      got == getTelegramSession(sessions, chatId)
      session == got.session
      text == trim(update.text)
      lower == toLowerCase(text)
      Stay(reply) == [users |-> us, sessions |-> got.sessions, reply |-> reply,
                      saved |-> FALSE, resolved |-> {}]
      Save(s1, reply) == [users |-> us,
                          sessions |-> saveTelegramSession(got.sessions, s1),
                          reply |-> reply, saved |-> TRUE, resolved |-> {}]
  IN
  IF startsWith(lower, K_start) \/ startsWith(lower, K_new)
  THEN Save([session EXCEPT !.state = "awaiting_language", !.draft = EmptyDraft],
            Reply("welcome"))
  ELSE IF startsWith(lower, K_help) THEN Stay(Reply("help"))
  ELSE IF startsWith(lower, K_cancel)
  THEN Save([session EXCEPT !.state = "idle", !.draft = EmptyDraft], Reply("cancelled"))
  ELSE IF startsWith(lower, K_status)
  THEN LET ticket == secondWord(text)
           found == statusQueryRows(grievs, ticket, chatId)
       IN IF Len(ticket) = 0 THEN Stay(Reply("statusMissing"))
          ELSE IF found = {} THEN Stay(Reply("statusNotFound"))
          ELSE LET g == grievs[CHOOSE i \in found : TRUE]
               IN Stay([key |-> "statusResult", ticket |-> g.ticket_number,
                        status |-> g.status])
  ELSE IF session.state = "awaiting_language"
  THEN LET selected == parseTelegramLanguage(text)
           ens == ensureTelegramCitizen(us, chatId)
           s1 == [session EXCEPT !.language = selected, !.state = "awaiting_category",
                                 !.userId = ens.id]
       IN IF selected = NoLanguage THEN Stay(Reply("chooseLanguage"))
          ELSE [users |-> ens.users,
                sessions |-> saveTelegramSession(got.sessions, s1),
                reply |-> Reply("languageSet"), saved |-> TRUE, resolved |-> {ens.id}]
  ELSE IF session.state = "awaiting_description"
  THEN IF Len(text) < MinDescription THEN Stay(Reply("invalidDescription"))
       ELSE Save([session EXCEPT !.draft = Put(session.draft, "description", text),
                                 !.state = "awaiting_location"],
                 Reply("enterLocation"))
  ELSE IF session.state = "awaiting_location"
  THEN IF update.location # NoLocation
       THEN LET loc == CHOOSE l \in update.location : TRUE
                d1 == Put(session.draft, "latitude", loc.latitude)
                d2 == Put(d1, "longitude", loc.longitude)
                d3 == Put(d2, "location",
                          toFixed6(loc.latitude) \o <<",", " ">> \o toFixed6(loc.longitude))
            IN Save([session EXCEPT !.draft = d3, !.state = "awaiting_confirmation"],
                    Reply("confirmPrompt"))
       ELSE IF Len(text) >= MinLocation
       THEN LET d1 == Put(session.draft, "location", text)
                d3 == Del(Del(d1, "latitude"), "longitude")
            IN Save([session EXCEPT !.draft = d3, !.state = "awaiting_confirmation"],
                    Reply("confirmPrompt"))
       ELSE Stay(Reply("invalidLocation"))
  ELSE Stay(Reply("unknown"))

\* -------------------------------------------------- handleTelegramCallback
\* Number(text) for the texts the callbacks carry: digits give their value,
\* the empty text gives 0, anything else NaN (here -1, equal to no category id)
RECURSIVE digitsValue(_)
digitsValue(s) ==
  IF Len(s) = 0 THEN 0
  ELSE digitsValue(SubSeq(s, 1, Len(s) - 1)) * 10
       + ((CHOOSE i \in 1..10 : DigitChars[i] = s[Len(s)]) - 1)

toNumber(s) ==
  IF \A i \in 1..Len(s) : \E j \in 1..10 : DigitChars[j] = s[i]
  THEN digitsValue(s) ELSE -1

\* data.replace(prefix, "") when data starts with prefix
dropPrefix(data, prefix) == SubSeq(data, Len(prefix) + 1, Len(data))

\* The part of the handler that runs after the awaited answerTelegramCallback,
\* up to its one awaited send.  `session` is the object loaded before the await.
callbackStep(data, session, chatId, us, sessions, grievs, now) ==
  LET Quiet == [users |-> us, sessions |-> sessions, grievances |-> grievs,
                reply |-> NoReply, saved |-> FALSE, resolved |-> {},
                threw |-> FALSE, ticket |-> NoTicket]
  IN
  IF startsWith(data, P_lang)
  THEN LET selected == parseTelegramLanguage(dropPrefix(data, P_lang))
           ens == ensureTelegramCitizen(us, chatId)
           s1 == [session EXCEPT !.language = selected, !.state = "awaiting_category",
                                 !.userId = ens.id]
       IN IF selected = NoLanguage THEN Quiet
          ELSE [Quiet EXCEPT !.users = ens.users,
                             !.sessions = saveTelegramSession(sessions, s1),
                             !.reply = Reply("languageSet"), !.saved = TRUE,
                             !.resolved = {ens.id}]
  ELSE IF startsWith(data, P_cat)
  THEN LET categoryId == toNumber(dropPrefix(data, P_cat))
           d1 == Put(session.draft, "categoryId", categoryId)
           d2 == Put(d1, "categoryName", categoryNames[categoryId])
           s1 == [session EXCEPT !.draft = d2, !.state = "awaiting_description"]
       IN IF categoryId \notin 1..Len(categoryNames) THEN Quiet
          ELSE [Quiet EXCEPT !.sessions = saveTelegramSession(sessions, s1),
                             !.reply = Reply("enterDescription"), !.saved = TRUE]
  ELSE IF data = D_cancel
  THEN LET s1 == [session EXCEPT !.state = "idle", !.draft = EmptyDraft]
       IN [Quiet EXCEPT !.sessions = saveTelegramSession(sessions, s1),
                        !.reply = Reply("cancelled"), !.saved = TRUE]
  ELSE IF data = D_submit
  THEN LET sub == submitTelegramComplaint(session, chatId, sessions, grievs, now)
       IN IF sub.threw THEN [Quiet EXCEPT !.threw = TRUE]
          ELSE IF sub.ticket = NoTicket
          THEN [Quiet EXCEPT !.sessions = sub.sessions, !.grievances = sub.grievances,
                             !.reply = Reply("unknown")]
          ELSE [Quiet EXCEPT !.sessions = sub.sessions, !.grievances = sub.grievances,
                             !.reply = [Reply("submitted") EXCEPT !.ticket = sub.ticket],
                             !.saved = TRUE, !.ticket = sub.ticket]
  ELSE Quiet

\* ------------------------------------------------------------------- state
VARIABLES
  botToken,          \* TELEGRAM_BOT_TOKEN is set (isTelegramEnabled)
  webhookSecret,     \* TELEGRAM_WEBHOOK_SECRET ("" when not configured)
  selectPrepares,    \* the gate's SELECT is accepted by the SQLite build
  users,             \* table users, in id order
  telegram_sessions, \* table telegram_sessions: chat_id -> row
  telegram_updates,  \* table telegram_updates: update_id -> number of rows
  grievances,        \* table grievances, in id order
  proc,              \* the webhook call dispatched for each update id
  clock,             \* Date.now()
  crashes,           \* process restarts so far
  response,          \* the HTTP response of the latest answered webhook call
  hist,              \* per update id: handler dispatches, tickets written
  resolvedIds,       \* per chat id: the ids ensureTelegramCitizen has returned
  resolutions,       \* per chat id: calls of ensureTelegramCitizen so far
  completed,         \* per chat id: drafts that reached awaiting_confirmation
  nLegacy, nCoarse, nServer, nClient,  \* normalizer inputs and results
  nChat              \* the status the chat's status query reported

vars == <<botToken, webhookSecret, selectPrepares, users, telegram_sessions, telegram_updates,
          grievances, proc, clock, crashes, response, hist, resolvedIds,
          resolutions, completed, nLegacy, nCoarse, nServer, nClient, nChat>>

dbVars == <<users, telegram_sessions, telegram_updates, grievances>>
normVars == <<nLegacy, nCoarse, nServer, nClient, nChat>>
configVars == <<botToken, webhookSecret, selectPrepares>>
ghostVars == <<resolvedIds, resolutions, completed>>

UpdateIds == 1..MaxUpdateId
ChatStrings == {chatIdString(c) : c \in ChatIds}

BlankSession == [chatId |-> NoChat, userId |-> NoUser, state |-> "idle",
                 language |-> <<"e","n">>, draft |-> EmptyDraft]

\* pc: none (never dispatched), answer (awaiting answerTelegramCallback),
\* send (awaiting sendTelegramMessage), caught (in the webhook's catch block),
\* done (answered), crashed (the process died), redelivered (delivered again
\* after the crash).  due: the update defines a session write; applied: the
\* handler has made it.
IdleProc == [pc |-> "none", data |-> T_none, session |-> BlankSession,
             reply |-> NoReply, due |-> FALSE, applied |-> FALSE, error |-> ""]
DoneProc == [IdleProc EXCEPT !.pc = "done"]

\* rows present after initDb() on a fresh database file (seed)
SeedUsers ==
  << [email |-> <<"a","d","m","i","n","@","n","a","g","a","r","s","e","v","a",".","g","o","v">>,
      role |-> "authority", telegram_chat_id |-> NoChat],
     [email |-> <<"c","i","t","i","z","e","n","@","n","a","g","a","r","s","e","v","a",".","c","o","m">>,
      role |-> "citizen", telegram_chat_id |-> NoChat] >>

\* the three seeded tickets; their title, description, location and coordinates
\* are abbreviated (the chat handlers never read a row of another channel)
SeedGrievance(n, cat, status) ==
  [ticket_number |-> <<"G","R","V","-","P","N","E","0","0", DigitChars[n + 1]>>,
   citizen_id |-> 2, category_id |-> cat,
   title |-> <<"s","e","e","d">>, description |-> <<"s","e","e","d">>,
   location |-> <<"P","u","n","e">>, latitude |-> {18}, longitude |-> {73},
   priority |-> "medium", status |-> status, complaint_status |-> "pending",
   source_channel |-> NULL, source_user_id |-> NoChat]

SeedGrievances ==
  << SeedGrievance(1, 1, "in_progress"), SeedGrievance(2, 2, "submitted"),
     SeedGrievance(3, 3, "under_review") >>

NoResponse == [update_id |-> 0, code |-> 0, duplicate |-> FALSE]

\* The database file outlives the process: a start finds what earlier runs
\* left.  Stored(k) is the database after the first k steps of one conversation
\* of chat 555 on a fresh database, each step computed by the handlers
\* themselves (the updates of that earlier run carry identifiers below
\* UpdateIds; its ticket was written at time 0).
FreshStore == [users |-> SeedUsers, sessions |-> [k \in {} |-> 0],
               grievances |-> SeedGrievances]

afterMessage(db, text) ==
  LET upd == [kind |-> "message", chat |-> 555, text |-> text,
              location |-> NoLocation, data |-> T_none]
      r == handleTelegramMessage(upd, db.users, db.sessions, db.grievances)
  IN [users |-> r.users, sessions |-> r.sessions, grievances |-> db.grievances]

afterCallback(db, data, now) ==
  LET chatId == chatIdString(555)
      got == getTelegramSession(db.sessions, chatId)
      r == callbackStep(data, got.session, chatId, db.users, got.sessions,
                        db.grievances, now)
  IN [users |-> r.users, sessions |-> r.sessions, grievances |-> r.grievances]

StoredStages == 0..6
RECURSIVE Stored(_)
Stored(k) ==
  IF k = 0 THEN FreshStore
  ELSE IF k = 1 THEN afterMessage(Stored(0), T_start)
  ELSE IF k = 2 THEN afterMessage(Stored(1), T_en)
  ELSE IF k = 3 THEN afterCallback(Stored(2), D_cat3, 0)
  ELSE IF k = 4 THEN afterMessage(Stored(3), T_ten)
  ELSE IF k = 5 THEN afterMessage(Stored(4), T_eng)
  ELSE afterCallback(Stored(5), D_submit, 0)

InitStore(k) ==
  /\ users = Stored(k).users
  /\ telegram_sessions = Stored(k).sessions
  /\ telegram_updates = [u \in UpdateIds |-> 0]
  /\ grievances = Stored(k).grievances
  /\ resolvedIds = [c \in ChatStrings |-> {}]
  /\ resolutions = [c \in ChatStrings |-> 0]
  /\ completed = [c \in ChatStrings |-> IF k >= 5 THEN 1 ELSE 0]
  /\ proc = [u \in UpdateIds |-> IdleProc]
  /\ clock = 1
  /\ crashes = 0
  /\ response = NoResponse
  /\ hist = [u \in UpdateIds |-> [dispatched |-> 0, wrote |-> 0]]

Init ==
  /\ botToken \in BOOLEAN
  /\ webhookSecret \in {"", "s3cret"}
  /\ selectPrepares \in BOOLEAN
  /\ \E k \in StoredStages : InitStore(k)
  /\ nLegacy = "submitted" /\ nCoarse = "pending"
  /\ nServer = NULL /\ nClient = NULL /\ nChat = NULL

\* ------------------------------------------------------------ webhook gate
\* (an enabled test that no longer looks at the credential)
isTelegramEnabled_always == TRUE
isTelegramEnabled == botToken

\* (a secret test that lets every header through)
secretAccepted_any(header) == TRUE
secretAccepted(header) == webhookSecret = "" \/ header = webhookSecret

\* SELECT 1 ... FROM telegram_updates WHERE update_id = ?  (a row exists)
seenUpdate(ledger, uid) == ledger[uid] > 0

\* (a dispatch that writes no ledger row)
recordUpdate_skip(ledger, uid) == [ok |-> TRUE, ledger |-> ledger]

\* INSERT INTO telegram_updates (update_id): PRIMARY KEY rejects a second row
recordUpdate(ledger, uid) ==
  IF ledger[uid] > 0 THEN [ok |-> FALSE, ledger |-> ledger]
  ELSE [ok |-> TRUE, ledger |-> [ledger EXCEPT ![uid] = @ + 1]]

Sending == {u \in UpdateIds : proc[u].pc \in {"send", "caught"}}
Inflight == {u \in UpdateIds : proc[u].pc \in {"answer", "send", "caught"}}

Respond(uid, code, dup) ==
  response' = [update_id |-> uid, code |-> code, duplicate |-> dup]

\* 503: the bot credential is absent
WebhookDisabled(uid, header) ==
  /\ ~isTelegramEnabled
  /\ Respond(uid, 503, FALSE)
  /\ UNCHANGED <<dbVars, configVars, normVars, proc, clock, crashes, hist,
                 ghostVars>>

\* 401: the secret header differs from the configured secret
WebhookBadSecret(uid, header) ==
  /\ isTelegramEnabled
  /\ ~secretAccepted(header)
  /\ Respond(uid, 401, FALSE)
  /\ UNCHANGED <<dbVars, configVars, normVars, proc, clock, crashes, hist,
                 ghostVars>>

\* 400: the body carries no numeric update_id
WebhookInvalid(header) ==
  /\ isTelegramEnabled
  /\ secretAccepted(header)
  /\ Respond(0, 400, FALSE)
  /\ UNCHANGED <<dbVars, configVars, normVars, proc, clock, crashes, hist,
                 ghostVars>>

\* db.prepare("SELECT 1 as exists FROM telegram_updates WHERE update_id = ?"):
\* EXISTS is a reserved word of SQLite's grammar and is not among the keywords
\* that fall back to identifiers, so prepare() raises 'near "exists": syntax
\* error' and the async route handler rejects before the ledger is touched
\* (selectPrepares = FALSE).  selectPrepares = TRUE is the same route on a
\* store that accepts the alias; it is kept so that the code behind the
\* statement can be examined.
WebhookSelectThrows(uid, header) ==
  /\ isTelegramEnabled
  /\ secretAccepted(header)
  /\ ~selectPrepares
  /\ Respond(uid, 500, FALSE)
  /\ UNCHANGED <<dbVars, configVars, normVars, proc, clock, crashes, hist,
                 ghostVars>>

\* the update id is already in the ledger: { ok: true, duplicate: true }
WebhookDuplicate(uid, header) ==
  /\ isTelegramEnabled
  /\ secretAccepted(header)
  /\ selectPrepares
  /\ seenUpdate(telegram_updates, uid)
  /\ Respond(uid, 200, TRUE)
  /\ proc' = [proc EXCEPT ![uid].pc = IF @ = "crashed" THEN "redelivered" ELSE @]
  /\ UNCHANGED <<dbVars, configVars, normVars, clock, crashes, hist,
                 ghostVars>>

\* the platform numbers its updates in increasing order: a new update carries
\* the lowest identifier not yet recorded
Passes(uid, header) ==
  /\ isTelegramEnabled
  /\ secretAccepted(header)
  /\ selectPrepares
  /\ ~seenUpdate(telegram_updates, uid)
  /\ \A v \in 1..(uid - 1) : hist[v].dispatched > 0
  /\ Cardinality(Inflight) < MaxInflight
  /\ Cardinality(Sending) < MaxSending

Merge(old, chatId, ids) ==
  [c \in ChatStrings |-> IF c = chatId THEN old[c] \cup ids ELSE old[c]]

\* the message handler saved a draft that reached awaiting_confirmation
Completes(after, chatId) == after[chatId].state = "awaiting_confirmation"

\* an update with a message: ledger insert, handleTelegramMessage up to its send
WebhookMessage(uid, header, upd) ==
  /\ Passes(uid, header)
  /\ LET rec == recordUpdate(telegram_updates, uid)
         chatId == chatIdString(upd.chat)
         r == handleTelegramMessage(upd, users, telegram_sessions, grievances)
     IN IF ~rec.ok
        THEN /\ Respond(uid, 500, FALSE)
             /\ UNCHANGED <<dbVars, proc, hist, ghostVars>>
        ELSE /\ telegram_updates' = rec.ledger
             /\ users' = r.users
             /\ telegram_sessions' = r.sessions
             /\ proc' = [proc EXCEPT ![uid] =
                           [IdleProc EXCEPT !.pc = "send", !.reply = r.reply,
                                            !.due = r.saved, !.applied = r.saved]]
             /\ hist' = [hist EXCEPT ![uid].dispatched = @ + 1]
             /\ resolvedIds' = Merge(resolvedIds, chatId, r.resolved)
             /\ resolutions' = [resolutions EXCEPT ![chatId] = @ + Cardinality(r.resolved)]
             /\ completed' = [completed EXCEPT ![chatId] =
                                IF r.saved /\ Completes(r.sessions, chatId)
                                THEN @ + 1 ELSE @]
             /\ UNCHANGED <<grievances, response>>
  /\ UNCHANGED <<configVars, normVars, clock, crashes>>

\* the callback's data defines a session write for the loaded session
transitionDue(data, session) ==
  \/ startsWith(data, P_lang) /\ parseTelegramLanguage(dropPrefix(data, P_lang)) # NoLanguage
  \/ startsWith(data, P_cat) /\ toNumber(dropPrefix(data, P_cat)) \in 1..Len(categoryNames)
  \/ data = D_cancel
  \/ data = D_submit /\ ~submitPreconditionFails(session)

\* an update with a callback_query: ledger insert, getTelegramSession, then the
\* handler waits for answerTelegramCallback
WebhookCallback(uid, header, upd) ==
  /\ Passes(uid, header)
  /\ LET rec == recordUpdate(telegram_updates, uid)
         got == getTelegramSession(telegram_sessions, chatIdString(upd.chat))
     IN IF ~rec.ok
        THEN /\ Respond(uid, 500, FALSE)
             /\ UNCHANGED <<dbVars, proc, hist>>
        ELSE /\ telegram_updates' = rec.ledger
             /\ telegram_sessions' = got.sessions
             /\ proc' = [proc EXCEPT ![uid] =
                           [IdleProc EXCEPT !.pc = "answer", !.data = upd.data,
                                            !.session = got.session,
                                            !.due = transitionDue(upd.data, got.session)]]
             /\ hist' = [hist EXCEPT ![uid].dispatched = @ + 1]
             /\ UNCHANGED <<users, grievances, response>>
  /\ UNCHANGED <<configVars, normVars, clock, crashes, ghostVars>>

\* an update with neither a message nor a callback_query that has a message:
\* recorded, nothing handled, { ok: true }
WebhookOther(uid, header) ==
  /\ Passes(uid, header)
  /\ LET rec == recordUpdate(telegram_updates, uid)
     IN IF ~rec.ok
        THEN /\ Respond(uid, 500, FALSE)
             /\ UNCHANGED <<telegram_updates, proc, hist>>
        ELSE /\ telegram_updates' = rec.ledger
             /\ proc' = [proc EXCEPT ![uid] = DoneProc]
             /\ hist' = [hist EXCEPT ![uid].dispatched = @ + 1]
             /\ Respond(uid, 200, FALSE)
  /\ UNCHANGED <<users, telegram_sessions, grievances, configVars, normVars, clock,
                 crashes, ghostVars>>

\* outcomes of one call of callTelegramApi: the fetch resolves ok, resolves
\* with an error status (logged), or rejects (the await throws)
ApiOutcomes == {"ok", "http_error", "throw"}

\* answerTelegramCallback settles; the rest of handleTelegramCallback runs up to
\* its send, or an error reaches the webhook's catch
AnswerDone(uid, outcome) ==
  /\ proc[uid].pc = "answer"
  /\ Cardinality(Sending) < MaxSending
  /\ LET p == proc[uid]
         chatId == p.session.chatId
         r == callbackStep(p.data, p.session, chatId, users, telegram_sessions,
                           grievances, clock)
     IN IF outcome = "throw"
        THEN /\ proc' = [proc EXCEPT ![uid] =
                           [IdleProc EXCEPT !.pc = "caught", !.due = p.due,
                                            !.error = "api"]]
             /\ UNCHANGED <<dbVars, hist, resolvedIds, resolutions, response>>
        ELSE /\ users' = r.users
             /\ telegram_sessions' = r.sessions
             /\ grievances' = r.grievances
             /\ resolvedIds' = Merge(resolvedIds, chatId, r.resolved)
             /\ resolutions' = [resolutions EXCEPT ![chatId] = @ + Cardinality(r.resolved)]
             /\ hist' = [hist EXCEPT ![uid].wrote =
                           IF r.ticket # NoTicket THEN @ + 1 ELSE @]
             /\ UNCHANGED telegram_updates
             /\ IF r.threw
                THEN /\ proc' = [proc EXCEPT ![uid] =
                                   [IdleProc EXCEPT !.pc = "caught", !.due = p.due,
                                                    !.error = "insert"]]
                     /\ UNCHANGED response
                ELSE IF r.reply = NoReply
                THEN /\ proc' = [proc EXCEPT ![uid] = DoneProc]
                     /\ Respond(uid, 200, FALSE)
                ELSE /\ proc' = [proc EXCEPT ![uid] =
                                   [IdleProc EXCEPT !.pc = "send", !.reply = r.reply,
                                                    !.due = p.due, !.applied = r.saved]]
                     /\ UNCHANGED response
  /\ UNCHANGED <<configVars, normVars, clock, crashes, completed>>

\* (an INSERT failure that nevertheless clears the session)
SubmitInsertFails_resets(uid) ==
  /\ proc[uid].pc = "answer"
  /\ proc[uid].data = D_submit
  /\ ~submitPreconditionFails(proc[uid].session)
  /\ Cardinality(Sending) < MaxSending
  /\ telegram_sessions' =
       saveTelegramSession(telegram_sessions,
         [proc[uid].session EXCEPT !.state = "idle", !.draft = EmptyDraft])
  /\ proc' = [proc EXCEPT ![uid] =
                [IdleProc EXCEPT !.pc = "caught", !.due = proc[uid].due,
                                 !.error = "insert"]]
  /\ UNCHANGED <<users, telegram_updates, grievances, hist, ghostVars, response,
                 configVars, normVars, clock, crashes>>

\* answerTelegramCallback has settled and the INSERT of submitTelegramComplaint
\* throws for a reason of the database itself (disk full, I/O error, busy
\* file): the statements after it (state idle, draft {}, save) are not
\* executed and the error reaches the webhook's catch
SubmitInsertFails(uid) ==
  /\ proc[uid].pc = "answer"
  /\ proc[uid].data = D_submit
  /\ ~submitPreconditionFails(proc[uid].session)
  /\ Cardinality(Sending) < MaxSending
  /\ proc' = [proc EXCEPT ![uid] =
                [IdleProc EXCEPT !.pc = "caught", !.due = proc[uid].due,
                                 !.error = "insert"]]
  /\ UNCHANGED <<dbVars, hist, ghostVars, response, configVars, normVars, clock,
                 crashes>>

\* sendTelegramMessage settles: the handler returns and the webhook answers
\* { ok: true }, or the rejected fetch reaches the webhook's catch
SendDone(uid, outcome) ==
  /\ proc[uid].pc = "send"
  /\ IF outcome = "throw"
     THEN /\ proc' = [proc EXCEPT ![uid] =
                        [IdleProc EXCEPT !.pc = "caught", !.due = proc[uid].due,
                                         !.applied = proc[uid].applied,
                                         !.error = "api"]]
          /\ UNCHANGED response
     ELSE /\ proc' = [proc EXCEPT ![uid] = DoneProc]
          /\ Respond(uid, 200, FALSE)
  /\ UNCHANGED <<dbVars, configVars, normVars, clock, crashes, hist,
                 ghostVars>>

\* the webhook's catch block: the error is logged, then { ok: true }
Caught(uid) ==
  /\ proc[uid].pc = "caught"
  /\ proc' = [proc EXCEPT ![uid] = DoneProc]
  /\ Respond(uid, 200, FALSE)
  /\ UNCHANGED <<dbVars, configVars, normVars, clock, crashes, hist,
                 ghostVars>>

\* Date.now() advances
\* (only the advance past a millisecond in which a ticket was written is told
\* apart: without one the next ticket number is a fresh name either way)
Tick ==
  /\ clock < MaxClock
  /\ \E i \in 1..Len(grievances) : grievances[i].ticket_number = ticketNumber(clock)
  /\ clock' = clock + 1
  /\ UNCHANGED <<dbVars, configVars, normVars, proc, crashes, response, hist,
                 ghostVars>>

\* the process dies with calls in flight and is restarted on the same database
Crash ==
  /\ crashes < MaxCrashes
  /\ Inflight # {}
  /\ crashes' = crashes + 1
  /\ proc' = [u \in UpdateIds |->
                IF u \in Inflight
                THEN [IdleProc EXCEPT !.pc = "crashed", !.due = proc[u].due,
                                      !.applied = proc[u].applied]
                ELSE proc[u]]
  /\ UNCHANGED <<dbVars, configVars, normVars, clock, response, hist,
                 ghostVars>>

\* POST /api/auth/register: a citizen account without a chat binding; the
\* UNIQUE email constraint rejects a second account with the same email
RegisterEmails == {fallbackEmail(chatIdString(555))}

Register(email) ==
  /\ \A i \in 1..Len(users) : users[i].email # email
  /\ users' = Append(users, [email |-> email, role |-> "citizen",
                             telegram_chat_id |-> NoChat])
  /\ UNCHANGED <<telegram_sessions, telegram_updates, grievances, configVars,
                 normVars, proc, clock, crashes, response, hist, ghostVars>>

Next ==
  \/ \E uid \in UpdateIds, header \in SecretHeaders : WebhookDisabled(uid, header)
  \/ \E uid \in UpdateIds, header \in SecretHeaders : WebhookBadSecret(uid, header)
  \/ \E header \in SecretHeaders : WebhookInvalid(header)
  \/ \E uid \in UpdateIds, header \in SecretHeaders : WebhookSelectThrows(uid, header)
  \/ \E uid \in UpdateIds, header \in SecretHeaders : WebhookDuplicate(uid, header)
  \/ \E uid \in UpdateIds, header \in SecretHeaders, upd \in MessageUpdates :
        WebhookMessage(uid, header, upd)
  \/ \E uid \in UpdateIds, header \in SecretHeaders, upd \in CallbackUpdates :
        WebhookCallback(uid, header, upd)
  \/ \E uid \in UpdateIds, header \in SecretHeaders : WebhookOther(uid, header)
  \/ \E uid \in UpdateIds, outcome \in ApiOutcomes : AnswerDone(uid, outcome)
  \/ \E uid \in UpdateIds : SubmitInsertFails(uid)
  \/ \E uid \in UpdateIds, outcome \in ApiOutcomes : SendDone(uid, outcome)
  \/ \E uid \in UpdateIds : Caught(uid)
  \/ Tick
  \/ Crash
  \/ \E email \in RegisterEmails : Register(email)

Spec == Init /\ [][Next]_vars

\* a status query of chat 555 for a ticket number
statusQuery(ticket) ==
  [kind |-> "message", chat |-> 555, text |-> T_status \o <<" ">> \o ticket,
   location |-> NoLocation, data |-> T_none]

\* ------------------------------------------------------- status normalizers
\* One ticket record (nLegacy = status, nCoarse = complaint_status) as a
\* database file can hold it, the authority's status change, and the two
\* surfaces that compute a stage from it.
InitNorm ==
  /\ botToken = TRUE
  /\ webhookSecret = "s3cret"
  /\ selectPrepares = TRUE
  /\ InitStore(0)
  /\ nLegacy \in LegacyStatuses
  /\ nCoarse \in CoarseStatuses
  /\ nServer = NULL /\ nClient = NULL /\ nChat = NULL

normRest == <<dbVars, configVars, proc, clock, crashes, response, hist, ghostVars>>

\* (a map that sends "accepted" to the legacy value of "in_progress")
statusMap_shifted(next) ==
  IF next = "accepted" THEN <<"in_progress">>
  ELSE IF next = "in_progress" THEN <<"in_progress">>
  ELSE <<"closed", "resolved">>

\* statusMap of PATCH /api/authority/grievances/:id/status
statusMap(next) ==
  IF next = "accepted" THEN <<"under_review", "assigned">>
  ELSE IF next = "in_progress" THEN <<"in_progress">>
  ELSE <<"closed", "resolved">>

AuthorityStatuses == {"accepted", "in_progress", "closed"}

\* (an update that rewrites the legacy column alone)
AuthorityPatch_legacyOnly(next) ==
  /\ \E i \in 1..Len(statusMap(next)) :
        /\ statusMap(next)[i] \in SchemaStatuses
        /\ \A j \in 1..(i - 1) : statusMap(next)[j] \notin SchemaStatuses
        /\ nLegacy' = statusMap(next)[i]
  /\ nCoarse' = nCoarse
  /\ nServer' = NULL
  /\ nClient' = NULL
  /\ nChat' = NULL
  /\ UNCHANGED normRest

\* the UPDATE is tried with each candidate in turn; the CHECK constraint on
\* grievances.status rejects a value outside SchemaStatuses
AuthorityPatch(next) ==
  /\ \E i \in 1..Len(statusMap(next)) :
        /\ statusMap(next)[i] \in SchemaStatuses
        /\ \A j \in 1..(i - 1) : statusMap(next)[j] \notin SchemaStatuses
        /\ nLegacy' = statusMap(next)[i]
  /\ nCoarse' = next
  /\ nServer' = NULL
  /\ nClient' = NULL
  /\ nChat' = NULL
  /\ UNCHANGED normRest

\* GET /api/grievances/track/:ticket computes tracking_stage
Track ==
  /\ nServer' = trackingStage(nLegacy, nCoarse)
  /\ UNCHANGED <<nLegacy, nCoarse, nClient, nChat, normRest>>

\* the dashboard computes normalizeStatus(item)
Dashboard ==
  /\ nClient' = normalizeStatus(nLegacy, nCoarse)
  /\ UNCHANGED <<nLegacy, nCoarse, nServer, nChat, normRest>>

\* the record as a ticket chat 555 wrote through the chat channel
chatTicket ==
  [ticket_number |-> ticketNumber(0), citizen_id |-> 2, category_id |-> 3,
   title |-> T_ten, description |-> T_ten, location |-> <<"P","u","n","e">>,
   latitude |-> {}, longitude |-> {}, priority |-> "medium",
   status |-> nLegacy, complaint_status |-> nCoarse,
   source_channel |-> "telegram", source_user_id |-> chatIdString(555)]

\* chat 555 sends "/status TGM-0": handleTelegramMessage reads the record and
\* reports a status
ChatStatus ==
  LET r == handleTelegramMessage(statusQuery(ticketNumber(0)), users,
                                 telegram_sessions, Append(grievances, chatTicket))
  IN /\ nChat' = r.reply.status
     /\ telegram_sessions' = r.sessions
     /\ UNCHANGED <<nLegacy, nCoarse, nServer, nClient, users, telegram_updates,
                    grievances, configVars, proc, clock, crashes, response, hist,
                    ghostVars>>

NextNorm ==
  \/ \E next \in AuthorityStatuses : AuthorityPatch(next)
  \/ Track
  \/ Dashboard
  \/ ChatStatus

SpecNorm == InitNorm /\ [][NextNorm]_vars

\* --------------------------------------------------------- ticket records
\* The grievances table under the operations that write a ticket's two status
\* columns: the seed, the two web creations, the chat writer and the
\* authority's status change.
MaxTickets == 5

\* `GRV-${Date.now().toString(36).toUpperCase()}`
webTicketNumber(now) == <<"G","R","V","-">> \o toBase36Upper(now)

\* Math.floor(Math.random() * 900 + 100): two of the values 100..999
ComplaintSuffixes == {100, 999}

\* `CMP-${Date.now().toString(36).toUpperCase()}-${...}`
complaintId(now, rnd) ==
  <<"C","M","P","-">> \o toBase36Upper(now) \o <<"-">> \o natDigits(rnd)

\* a row the web creations insert for the signed-in citizen: status 'submitted',
\* complaint_status 'pending' (written, or the column's DEFAULT)
webRow(ticket) ==
  [ticket_number |-> ticket, citizen_id |-> 2, category_id |-> 1,
   title |-> T_ten, description |-> T_ten, location |-> <<"P","u","n","e">>,
   latitude |-> {}, longitude |-> {}, priority |-> "medium",
   status |-> "submitted", complaint_status |-> "pending",
   source_channel |-> NULL, source_user_id |-> NoChat]

ticketRest == <<configVars, normVars, proc, crashes, response, hist, ghostVars>>

\* the INSERT of a web creation; a ticket number already present violates
\* UNIQUE(ticket_number) and nothing is written
insertWebRow(ticket) ==
  /\ Len(grievances) < MaxTickets
  /\ \A i \in 1..Len(grievances) : grievances[i].ticket_number # ticket
  /\ grievances' = Append(grievances, webRow(ticket))
  /\ UNCHANGED <<users, telegram_sessions, telegram_updates, clock, ticketRest>>

\* POST /api/grievances
CreateGrievance == insertWebRow(webTicketNumber(clock))

\* POST /api/complaints
CreateComplaint(rnd) == insertWebRow(complaintId(clock, rnd))

\* a confirm:submit callback of chat 555 that writes the chat's ticket
ChatWrite ==
  LET r == afterCallback([users |-> users, sessions |-> telegram_sessions,
                          grievances |-> grievances], D_submit, clock)
  IN /\ Len(grievances) < MaxTickets
     /\ Len(r.grievances) > Len(grievances)
     /\ users' = r.users
     /\ telegram_sessions' = r.sessions
     /\ grievances' = r.grievances
     /\ UNCHANGED <<telegram_updates, clock, ticketRest>>

\* the first candidate of statusMap the CHECK constraint on status accepts
acceptedCandidate(next) ==
  LET cs == statusMap(next)
      ok == {i \in 1..Len(cs) : cs[i] \in SchemaStatuses}
  IN cs[CHOOSE i \in ok : \A j \in ok : i <= j]

\* PATCH /api/authority/grievances/:id/status on the row with that id
PatchTicket(id, next) ==
  /\ id \in 1..Len(grievances)
  /\ \E i \in 1..Len(statusMap(next)) : statusMap(next)[i] \in SchemaStatuses
  /\ grievances' = [grievances EXCEPT ![id].status = acceptedCandidate(next),
                                      ![id].complaint_status = next]
  /\ UNCHANGED <<users, telegram_sessions, telegram_updates, clock, ticketRest>>

\* Date.now() advances between two requests
TimePasses ==
  /\ clock < MaxClock
  /\ clock' = clock + 1
  /\ UNCHANGED <<dbVars, ticketRest>>

InitTickets ==
  /\ botToken = TRUE
  /\ webhookSecret = "s3cret"
  /\ selectPrepares = TRUE
  /\ InitStore(5)
  /\ nLegacy = "submitted" /\ nCoarse = "pending"
  /\ nServer = NULL /\ nClient = NULL /\ nChat = NULL

NextTickets ==
  \/ CreateGrievance
  \/ \E rnd \in ComplaintSuffixes : CreateComplaint(rnd)
  \/ ChatWrite
  \/ \E id \in 1..MaxTickets, next \in AuthorityStatuses : PatchTicket(id, next)
  \/ TimePasses

SpecTickets == InitTickets /\ [][NextTickets]_vars

\* ------------------------------------------------------------------ claims
telegramTickets(c) ==
  {i \in 1..Len(grievances) : /\ grievances[i].source_channel = "telegram"
                              /\ grievances[i].source_user_id = c}

\* C1: once a delivery of update u has passed the credential, secret and
\* payload checks and has been answered, the ledger holds exactly one entry for
\* u (two deliveries of u leave exactly one ledger entry, the second being
\* answered as a duplicate).
C1_AnsweredDeliveryIsRecorded ==
  \A u \in UpdateIds :
    (response.update_id = u /\ response.code \notin {400, 401, 503})
      => telegram_updates[u] = 1

\* C2: for every chat, the tickets written through the chat channel never
\* outnumber the drafts that were completed: two submit callbacks with distinct
\* update ids write at most one ticket for one completed draft.
C2_OneTicketPerCompletedDraft ==
  \A c \in ChatStrings : Cardinality(telegramTickets(c)) <= completed[c]

\* C3: every ticket written through the chat channel holds a category of the
\* catalog, a description of at least 10 characters, and a location that is
\* either a text of at least 3 characters or the string synthesized from the
\* structured coordinates stored with it.
C3_TicketsHoldCompleteDrafts ==
  \A i \in 1..Len(grievances) :
    grievances[i].source_channel = "telegram" =>
      /\ grievances[i].category_id \in 1..Len(categoryNames)
      /\ Len(grievances[i].description) >= 10
      /\ \/ Len(grievances[i].location) >= 3 /\ grievances[i].latitude = {}
         \/ \E lat \in grievances[i].latitude, long \in grievances[i].longitude :
               grievances[i].location = toFixed6(lat) \o <<",", " ">> \o toFixed6(long)

\* C3 witness: a handler of this run wrote a ticket whose location was
\* synthesized from coordinates.
C3_Witness ==
  /\ \E u \in UpdateIds : hist[u].wrote = 1
  /\ \E i \in 1..Len(grievances) :
       /\ grievances[i].source_channel = "telegram"
       /\ grievances[i].ticket_number = ticketNumber(1)
       /\ grievances[i].latitude # {}

\* C4: for every record the schema can store, the stage the track endpoint
\* computed equals the stage the dashboard computed.
C4_TrackEqualsDashboard ==
  (nLegacy \in SchemaStatuses /\ nServer # NULL /\ nClient # NULL)
    => nServer = nClient

\* C5: when the coarse status is accepted, in_progress or closed, the stage
\* either surface computed is that coarse value, whatever the legacy status.
C5_CoarseValueWins ==
  nCoarse \in AuthorityStatuses =>
    /\ nServer # NULL => nServer = nCoarse
    /\ nClient # NULL => nClient = nCoarse

\* the fixed mapping from the legacy status alone
C6_legacyStage(status) ==
  IF status \in {"resolved", "closed"} THEN "closed"
  ELSE IF status \in {"under_review", "assigned", "escalated", "reopened"} THEN "accepted"
  ELSE IF status \in {"in_progress", "awaiting_confirmation"} THEN "in_progress"
  ELSE "submitted"

\* C6: when the coarse status is absent or "pending", the stage either surface
\* computed is the fixed mapping of the legacy status; and for every record
\* each computed stage is one of submitted, accepted, in_progress, closed.
C6_DefaultCoarseUsesLegacy ==
  /\ nCoarse \in {NULL, "", "pending"} =>
       /\ nServer # NULL => nServer = C6_legacyStage(nLegacy)
       /\ nClient # NULL => nClient = C6_legacyStage(nLegacy)
  /\ nServer # NULL => nServer \in Stages
  /\ nClient # NULL => nClient \in Stages

\* C6 witness: normalize(legacy = "resolved", coarse = null) = closed on both
\* surfaces.
C6_Witness ==
  /\ nLegacy = "resolved" /\ nCoarse = NULL
  /\ nServer = "closed" /\ nClient = "closed"

boundUsers(c) == {i \in 1..Len(users) : users[i].telegram_chat_id = c}
accountsOf(c) ==
  {i \in 1..Len(users) : users[i].telegram_chat_id = c \/ users[i].email = fallbackEmail(c)}

\* C7: for every chat id at most one account is bound to it or carries its
\* placeholder email, and once identity resolution has run for the chat id
\* exactly one account is bound and every resolution returned that account.
C7_OneAccountPerChat ==
  \A c \in ChatStrings :
    /\ Cardinality(accountsOf(c)) <= 1
    /\ resolutions[c] > 0 => (boundUsers(c) = accountsOf(c) /\ resolvedIds[c] = boundUsers(c)
                              /\ Cardinality(boundUsers(c)) = 1)

\* C7 witness: two identity resolutions for chat 555 have run, the second one
\* in a callback that was dispatched first and was still waiting while the
\* other update was handled to its end.
C7_Witness ==
  /\ resolutions[chatIdString(555)] = 2
  /\ Cardinality(resolvedIds[chatIdString(555)]) = 1
  /\ proc[1].pc = "send" /\ proc[2].pc = "done"

\* C8: an outbound call that raised while update u was handled has not kept
\* u's session transition or ticket write from being made.
C8_OutboundFailureKeepsTransition ==
  \A u \in UpdateIds :
    (proc[u].pc = "caught" /\ proc[u].error = "api" /\ proc[u].due) => proc[u].applied

\* C9: every step that answers { ok: true } for a non-duplicate update whose
\* handler was dispatched finds the update's transition already applied.
C9_AckOnlyAfterCommit ==
  [][\A u \in UpdateIds :
        (proc[u].pc \in {"answer", "send", "caught"} /\ proc'[u].pc = "done"
         /\ proc[u].due) => proc[u].applied]_vars

\* C10: once an update whose processing stopped after its ledger entry has
\* been delivered again, its transition has been applied.
C10_RedeliveryAppliesTransition ==
  \A u \in UpdateIds :
    (proc[u].pc = "redelivered" /\ proc[u].due) => proc[u].applied

\* one call of POST /webhooks/telegram carrying update uid and secret header
webhookCall(uid, header) ==
  \/ WebhookDisabled(uid, header)
  \/ WebhookBadSecret(uid, header)
  \/ WebhookInvalid(header)
  \/ WebhookSelectThrows(uid, header)
  \/ WebhookDuplicate(uid, header)
  \/ \E upd \in MessageUpdates : WebhookMessage(uid, header, upd)
  \/ \E upd \in CallbackUpdates : WebhookCallback(uid, header, upd)
  \/ WebhookOther(uid, header)

\* C11: a webhook call with a well-formed update that has passed the enabled
\* check and the secret check is never answered with anything but the success
\* acknowledgment (status 200), whatever happens behind the checks.
C11_PassedCallGetsSuccessAck ==
  response.code \in {0, 200, 400, 401, 503}

\* C12: with a secret configured, every webhook call whose header is not that
\* secret is answered 401 (503 when the bot is disabled) and changes no table:
\* ledger, sessions, users and grievances stay as they were, and no handler
\* is started.
C12_BadSecretChangesNothing ==
  [][\A uid \in UpdateIds, header \in SecretHeaders :
        (webhookSecret # "" /\ header # webhookSecret /\ webhookCall(uid, header))
          => /\ UNCHANGED <<dbVars, proc, hist, ghostVars>>
             /\ response'.code \in {401, 503}]_vars

\* C12 witness: a call was answered 401 under a configured secret.
C12_Witness ==
  webhookSecret # "" /\ response.code = 401

\* C13: without the bot credential every webhook call, whatever its update and
\* header, is answered 503 and changes no table and starts no handler.
C13_DisabledChangesNothing ==
  [][\A uid \in UpdateIds, header \in SecretHeaders :
        (~botToken /\ webhookCall(uid, header))
          => /\ UNCHANGED <<dbVars, proc, hist, ghostVars>>
             /\ response'.code = 503]_vars

\* C13 witness: a call was answered 503 while a stored conversation exists.
C13_Witness ==
  ~botToken /\ response.code = 503 /\ DOMAIN telegram_sessions # {}

\* the stored session of chat c is Idle with an empty draft
storedIdle(sessions, c) ==
  /\ c \in DOMAIN sessions
  /\ sessions[c].state = "idle"
  /\ sessions[c].draft_json = stringifyDraft(EmptyDraft)

\* C14: every handling of a cancel command, the text /cancel in a message or
\* the button confirm:cancel in a callback, from whatever stored session and
\* draft, leaves the stored session Idle with an empty draft and writes no
\* ticket.
C14_CancelLeavesIdle ==
  [][/\ \A uid \in UpdateIds, header \in SecretHeaders, upd \in MessageUpdates :
          (upd.text = T_cancel /\ WebhookMessage(uid, header, upd))
            => /\ storedIdle(telegram_sessions', chatIdString(upd.chat))
               /\ grievances' = grievances
     /\ \A uid \in UpdateIds, outcome \in ApiOutcomes :
          (proc[uid].data = D_cancel /\ AnswerDone(uid, outcome))
            => /\ storedIdle(telegram_sessions', proc[uid].session.chatId)
               /\ grievances' = grievances]_vars

\* C15: every handling of a message whose text is a reset command (/start or
\* /new, in any letter case), from whatever stored session, answers with the
\* welcome prompt, leaves the stored session in awaiting_language with an empty
\* draft, and writes no ticket; the text is never taken as a description or a
\* location.
C15_ResetForcesAwaitingLanguage ==
  [][\A uid \in UpdateIds, header \in SecretHeaders, upd \in MessageUpdates :
        (upd.text \in {T_start, T_new} /\ WebhookMessage(uid, header, upd))
          => LET c == chatIdString(upd.chat) IN
             /\ c \in DOMAIN telegram_sessions'
             /\ telegram_sessions'[c].state = "awaiting_language"
             /\ telegram_sessions'[c].draft_json = stringifyDraft(EmptyDraft)
             /\ proc'[uid].reply.key = "welcome"
             /\ grievances' = grievances]_vars

\* C15 witness: a reset command has been handled for a chat whose conversation
\* was under way (account bound, no ticket written yet): the stored session is
\* back in awaiting_language with an empty draft.
C15_Witness ==
  /\ proc[1].pc = "send" /\ proc[1].reply.key = "welcome"
  /\ boundUsers(chatIdString(555)) # {}
  /\ telegramTickets(chatIdString(555)) = {}
  /\ telegram_sessions[chatIdString(555)].state = "awaiting_language"
  /\ telegram_sessions[chatIdString(555)].draft_json = stringifyDraft(EmptyDraft)

\* C16: every handling of a help command or a status query (with or without a
\* ticket number) for a chat that has a stored session leaves the stored
\* sessions (state, draft, language, account id), the accounts and the tickets
\* exactly as they were.
C16_HelpAndStatusChangeNothing ==
  [][\A uid \in UpdateIds, header \in SecretHeaders, upd \in MessageUpdates :
        (/\ upd.text \in {T_help, T_status, T_statusT}
         /\ chatIdString(upd.chat) \in DOMAIN telegram_sessions
         /\ WebhookMessage(uid, header, upd))
          => /\ telegram_sessions' = telegram_sessions
             /\ users' = users
             /\ grievances' = grievances
             /\ proc'[uid].reply.key \in
                  {"help", "statusMissing", "statusNotFound", "statusResult"}]_vars

\* C16 witness: a help command has been answered while the stored session
\* waits for a location with the description already in the draft.
C16_Witness ==
  /\ \E uid \in UpdateIds : proc[uid].pc = "send" /\ proc[uid].reply.key = "help"
  /\ chatIdString(555) \in DOMAIN telegram_sessions
  /\ telegram_sessions[chatIdString(555)].state = "awaiting_location"
  /\ Has(parseDraft(telegram_sessions[chatIdString(555)].draft_json), "description")

\* the row the spec gives a chat on its first inbound event
firstSessionRow ==
  [user_id |-> NoUser, state |-> "awaiting_language", language |-> <<"e","n">>,
   draft_json |-> stringifyDraft(EmptyDraft)]

\* C17: when an update is handled for a chat that has no stored session, a
\* session row is created for it.  For a callback the row created is
\* awaiting_language with an empty draft and no account id, and the session the
\* handler goes on with is that one.  For a message the stored result is the one
\* the handler gives from that row: text that is neither a command nor a
\* language leaves exactly that row and asks for the language, a language moves
\* on to awaiting_category, /cancel to idle.
C17_FirstEventStartsInAwaitingLanguage ==
  [][/\ \A uid \in UpdateIds, header \in SecretHeaders, upd \in CallbackUpdates :
          (chatIdString(upd.chat) \notin DOMAIN telegram_sessions
           /\ WebhookCallback(uid, header, upd))
            => LET c == chatIdString(upd.chat) IN
               /\ c \in DOMAIN telegram_sessions'
               /\ telegram_sessions'[c] = firstSessionRow
               /\ proc'[uid].session.state = "awaiting_language"
               /\ proc'[uid].session.draft = EmptyDraft
               /\ proc'[uid].session.userId = NoUser
     /\ \A uid \in UpdateIds, header \in SecretHeaders, upd \in MessageUpdates :
          (chatIdString(upd.chat) \notin DOMAIN telegram_sessions
           /\ WebhookMessage(uid, header, upd))
            => LET c == chatIdString(upd.chat) IN
               /\ c \in DOMAIN telegram_sessions'
               /\ upd.text \in {T_xx, T_nine, T_ten}
                    => /\ telegram_sessions'[c] = firstSessionRow
                       /\ proc'[uid].reply.key = "chooseLanguage"
                       /\ users' = users
               /\ upd.text \in {T_en, T_eng}
                    => /\ telegram_sessions'[c].state = "awaiting_category"
                       /\ telegram_sessions'[c].draft_json = stringifyDraft(EmptyDraft)
               /\ upd.text \in {T_help, T_status, T_statusT}
                    => telegram_sessions'[c] = firstSessionRow
               /\ upd.text = T_cancel
                    => telegram_sessions'[c] = [firstSessionRow EXCEPT !.state = "idle"]
               /\ grievances' = grievances]_vars

\* C17 witness: a callback is in hand whose handler goes on with the
\* awaiting_language session with no account id that is stored for its chat,
\* and no account has ever been bound to the chat.
C17_Witness ==
  \E uid \in UpdateIds :
    /\ proc[uid].pc = "answer"
    /\ proc[uid].session.state = "awaiting_language"
    /\ proc[uid].session.userId = NoUser
    /\ telegram_sessions[proc[uid].session.chatId] = firstSessionRow
    /\ boundUsers(proc[uid].session.chatId) = {}

\* callback data for which the spec defines no transition in the given state
undefinedCallback(data, state) ==
  \/ startsWith(data, P_lang) /\ state # "awaiting_language"
  \/ startsWith(data, P_cat) /\ state # "awaiting_category"
  \/ data = D_submit /\ state # "awaiting_confirmation"

\* message texts that are no command
FreeTexts == {T_en, T_eng, T_xx, T_nine, T_ten}

\* C18: an input for which the session's state defines no transition leaves
\* the stored sessions and the tickets as they were: a lang:, cat: or
\* confirm:submit callback handled for a session outside awaiting_language,
\* awaiting_category, awaiting_confirmation respectively (the stored row being
\* the one the handler loaded), and free text for a session that is idle,
\* awaiting_category or awaiting_confirmation.
C18_UndefinedInputChangesNothing ==
  [][/\ \A uid \in UpdateIds, outcome \in ApiOutcomes :
          (/\ proc[uid].pc = "answer"
           /\ undefinedCallback(proc[uid].data, proc[uid].session.state)
           /\ proc[uid].session.chatId \in DOMAIN telegram_sessions
           /\ telegram_sessions[proc[uid].session.chatId] = sessionRow(proc[uid].session)
           /\ AnswerDone(uid, outcome))
            => telegram_sessions' = telegram_sessions /\ grievances' = grievances
     /\ \A uid \in UpdateIds, header \in SecretHeaders, upd \in MessageUpdates :
          (/\ upd.text \in FreeTexts
           /\ chatIdString(upd.chat) \in DOMAIN telegram_sessions
           /\ telegram_sessions[chatIdString(upd.chat)].state
                \in {"idle", "awaiting_category", "awaiting_confirmation"}
           /\ WebhookMessage(uid, header, upd))
            => telegram_sessions' = telegram_sessions /\ grievances' = grievances]_vars

\* C19: when the callback of a submit or cancel button is handled for a session
\* that was loaded in awaiting_confirmation and is still stored as loaded,
\* submit adds exactly one ticket and cancel adds none, and either leaves the
\* stored session idle with an empty draft.
C19_ConfirmationSubmitOrCancel ==
  [][\A uid \in UpdateIds, outcome \in ApiOutcomes :
        (/\ proc[uid].pc = "answer"
         /\ proc[uid].data \in {D_submit, D_cancel}
         /\ proc[uid].session.state = "awaiting_confirmation"
         /\ proc[uid].session.chatId \in DOMAIN telegram_sessions
         /\ telegram_sessions[proc[uid].session.chatId] = sessionRow(proc[uid].session)
         /\ AnswerDone(uid, outcome))
          => /\ storedIdle(telegram_sessions', proc[uid].session.chatId)
             /\ proc[uid].data = D_submit
                  => /\ Len(grievances') = Len(grievances) + 1
                     /\ hist'[uid].wrote = hist[uid].wrote + 1
             /\ proc[uid].data = D_cancel => grievances' = grievances]_vars

\* C20: for a session in awaiting_language, a valid language selection, typed
\* or tapped, stores the selected language, state awaiting_category and the id
\* of an account bound to the chat; any other text that is no command leaves
\* the stored sessions and the accounts as they were.
C20_LanguageSelection ==
  [][/\ \A uid \in UpdateIds, header \in SecretHeaders, upd \in MessageUpdates :
          (/\ upd.text \in FreeTexts
           /\ chatIdString(upd.chat) \in DOMAIN telegram_sessions
           /\ telegram_sessions[chatIdString(upd.chat)].state = "awaiting_language"
           /\ WebhookMessage(uid, header, upd))
            => LET c == chatIdString(upd.chat)
                   selected == parseTelegramLanguage(trim(upd.text))
               IN IF selected # NoLanguage
                  THEN /\ telegram_sessions'[c].state = "awaiting_category"
                       /\ telegram_sessions'[c].language = selected
                       /\ telegram_sessions'[c].user_id # NoUser
                       /\ telegram_sessions'[c].user_id \in
                            {i \in 1..Len(users') : users'[i].telegram_chat_id = c}
                       /\ telegram_sessions'[c].draft_json = telegram_sessions[c].draft_json
                  ELSE telegram_sessions' = telegram_sessions /\ users' = users
     /\ \A uid \in UpdateIds, outcome \in ApiOutcomes :
          (/\ proc[uid].pc = "answer"
           /\ proc[uid].data = D_langHi
           /\ proc[uid].session.state = "awaiting_language"
           /\ proc[uid].session.chatId \in DOMAIN telegram_sessions
           /\ telegram_sessions[proc[uid].session.chatId] = sessionRow(proc[uid].session)
           /\ AnswerDone(uid, outcome))
            => LET c == proc[uid].session.chatId IN
               /\ telegram_sessions'[c].state = "awaiting_category"
               /\ telegram_sessions'[c].language = <<"h","i">>
               /\ telegram_sessions'[c].user_id # NoUser
               /\ telegram_sessions'[c].user_id \in
                    {i \in 1..Len(users') : users'[i].telegram_chat_id = c}]_vars

\* C21: when a cat: callback is handled for a session that was loaded in
\* awaiting_category and is still stored as loaded, an id of the catalog is
\* stored in the draft with its name and the stored state becomes
\* awaiting_description; an id outside the catalog leaves the stored sessions
\* as they were.
C21_CategorySelection ==
  [][\A uid \in UpdateIds, outcome \in ApiOutcomes :
        (/\ proc[uid].pc = "answer"
         /\ startsWith(proc[uid].data, P_cat)
         /\ proc[uid].session.state = "awaiting_category"
         /\ proc[uid].session.chatId \in DOMAIN telegram_sessions
         /\ telegram_sessions[proc[uid].session.chatId] = sessionRow(proc[uid].session)
         /\ AnswerDone(uid, outcome))
          => LET c == proc[uid].session.chatId
                 id == toNumber(dropPrefix(proc[uid].data, P_cat))
                 draft == parseDraft(telegram_sessions'[c].draft_json)
             IN IF id \in 1..Len(categoryNames)
                THEN /\ telegram_sessions'[c].state = "awaiting_description"
                     /\ Has(draft, "categoryId") /\ draft["categoryId"] = id
                     /\ Has(draft, "categoryName")
                     /\ draft["categoryName"] = categoryNames[id]
                ELSE telegram_sessions' = telegram_sessions]_vars

\* C22: when a message that is no command is handled for a session stored in
\* awaiting_description, a text of fewer than 10 characters (as the handler
\* measures it, after trimming) leaves the stored sessions as they were and
\* asks again; a text of 10 or more characters becomes the draft's description,
\* the draft keeps its category id and name, and the stored state becomes
\* awaiting_location.  No ticket is written either way.
C22_DescriptionStep ==
  [][\A uid \in UpdateIds, header \in SecretHeaders, upd \in MessageUpdates :
        (/\ upd.text \in FreeTexts \cup {T_none}
         /\ chatIdString(upd.chat) \in DOMAIN telegram_sessions
         /\ telegram_sessions[chatIdString(upd.chat)].state = "awaiting_description"
         /\ WebhookMessage(uid, header, upd))
          => LET c == chatIdString(upd.chat)
                 text == trim(upd.text)
                 before == parseDraft(telegram_sessions[c].draft_json)
                 after == parseDraft(telegram_sessions'[c].draft_json)
             IN /\ grievances' = grievances
                /\ IF Len(text) < 10
                   THEN /\ telegram_sessions' = telegram_sessions
                        /\ proc'[uid].reply.key = "invalidDescription"
                   ELSE /\ telegram_sessions'[c].state = "awaiting_location"
                        /\ Has(after, "description") /\ after["description"] = text
                        /\ \A k \in {"categoryId", "categoryName"} :
                             Has(before, k) => Has(after, k) /\ after[k] = before[k]
                        /\ telegram_sessions'[c].user_id = telegram_sessions[c].user_id
                        /\ telegram_sessions'[c].language = telegram_sessions[c].language]_vars

\* C22 witness: a description has just been accepted: the handler is sending
\* the location prompt, and the stored session waits for a location with the
\* description and the category in its draft.
C22_Witness ==
  \E uid \in UpdateIds :
    /\ proc[uid].pc = "send" /\ proc[uid].reply.key = "enterLocation"
    /\ telegram_sessions[chatIdString(555)].state = "awaiting_location"
    /\ LET d == parseDraft(telegram_sessions[chatIdString(555)].draft_json)
       IN Has(d, "description") /\ Len(d["description"]) >= 10 /\ Has(d, "categoryId")

\* the display string the handler builds from latitude 18 and longitude 73
T_geo == <<"1","8",".","0","0","0","0","0","0",",", " ",
           "7","3",".","0","0","0","0","0","0">>

\* the stored sessions with latitude and longitude added to the draft of chat c
\* (a draft that kept the coordinates of an earlier location input)
withCoordinates(sessions, c) ==
  [sessions EXCEPT ![c].draft_json =
     stringifyDraft(Put(Put(parseDraft(@), "latitude", 18), "longitude", 73))]

\* C23: when a message that is no command is handled for a session stored in
\* awaiting_location: a message carrying coordinates stores latitude, longitude
\* and the display string built from them, whatever its text; otherwise a text
\* of 3 or more characters (after trimming) becomes the draft's location and the
\* draft holds no coordinates afterwards; both store state
\* awaiting_confirmation; a shorter text leaves the stored sessions as they
\* were.  The handler gives a draft without coordinates also when the stored
\* draft held coordinates before the text arrived.
C23_LocationStep ==
  [][/\ \A upd \in MessageUpdates :
          LET c == chatIdString(upd.chat) IN
          (/\ upd.text \in FreeTexts /\ Len(trim(upd.text)) >= 3
           /\ c \in DOMAIN telegram_sessions
           /\ telegram_sessions[c].state = "awaiting_location")
            => LET r == handleTelegramMessage(upd, users,
                                              withCoordinates(telegram_sessions, c),
                                              grievances)
                   after == parseDraft(r.sessions[c].draft_json)
               IN /\ r.sessions[c].state = "awaiting_confirmation"
                  /\ Has(after, "location") /\ after["location"] = trim(upd.text)
                  /\ ~Has(after, "latitude") /\ ~Has(after, "longitude")
     /\ \A uid \in UpdateIds, header \in SecretHeaders, upd \in MessageUpdates :
          (/\ upd.text \in FreeTexts \cup {T_none}
           /\ chatIdString(upd.chat) \in DOMAIN telegram_sessions
           /\ telegram_sessions[chatIdString(upd.chat)].state = "awaiting_location"
           /\ WebhookMessage(uid, header, upd))
            => LET c == chatIdString(upd.chat)
                   text == trim(upd.text)
                   before == parseDraft(telegram_sessions[c].draft_json)
                   after == parseDraft(telegram_sessions'[c].draft_json)
               IN /\ grievances' = grievances
                  /\ IF upd.location # NoLocation
                     THEN /\ telegram_sessions'[c].state = "awaiting_confirmation"
                          /\ Has(after, "latitude") /\ after["latitude"] = 18
                          /\ Has(after, "longitude") /\ after["longitude"] = 73
                          /\ Has(after, "location") /\ after["location"] = T_geo
                     ELSE IF Len(text) >= 3
                     THEN /\ telegram_sessions'[c].state = "awaiting_confirmation"
                          /\ Has(after, "location") /\ after["location"] = text
                          /\ ~Has(after, "latitude") /\ ~Has(after, "longitude")
                     ELSE /\ telegram_sessions' = telegram_sessions
                          /\ proc'[uid].reply.key = "invalidLocation"
                  /\ \A k \in {"categoryId", "categoryName", "description"} :
                       Has(before, k) => Has(after, k) /\ after[k] = before[k]]_vars

\* C23 witness: a message carrying coordinates and an empty text has just been
\* accepted as the location: the handler is sending the summary and the stored
\* session waits for confirmation with the coordinates and the display string.
C23_Witness ==
  \E uid \in UpdateIds :
    /\ proc[uid].pc = "send" /\ proc[uid].reply.key = "confirmPrompt"
    /\ telegram_sessions[chatIdString(555)].state = "awaiting_confirmation"
    /\ LET d == parseDraft(telegram_sessions[chatIdString(555)].draft_json)
       IN Has(d, "latitude") /\ Has(d, "location") /\ d["location"] = T_geo

\* C24: every step of the chat flow that adds a row to the tickets adds exactly
\* one, for a submit callback in hand; the row carries source channel telegram,
\* the chat id of that callback's conversation as source id, priority medium,
\* status submitted and complaint status pending, so its stage is submitted;
\* and after the step that chat's stored session is idle with an empty draft.
C24_TicketDefaultsAndReset ==
  [][Len(grievances') > Len(grievances)
       => /\ Len(grievances') = Len(grievances) + 1
          /\ SubSeq(grievances', 1, Len(grievances)) = grievances
          /\ LET row == grievances'[Len(grievances')] IN
             /\ row.source_channel = "telegram"
             /\ row.priority = "medium"
             /\ row.status = "submitted"
             /\ row.complaint_status = "pending"
             /\ trackingStage(row.status, row.complaint_status) = "submitted"
             /\ \E uid \in UpdateIds :
                  /\ proc[uid].pc = "answer" /\ proc[uid].data = D_submit
                  /\ row.source_user_id = proc[uid].session.chatId
                  /\ row.citizen_id = proc[uid].session.userId
                  /\ storedIdle(telegram_sessions', proc[uid].session.chatId)]_vars

\* C24 witness: a submit callback has written its ticket and is sending the
\* success reply; the ticket is tagged with the chat and the chat's stored
\* session is idle with an empty draft.
C24_Witness ==
  \E uid \in UpdateIds :
    /\ hist[uid].wrote = 1
    /\ proc[uid].pc = "send" /\ proc[uid].reply.key = "submitted"
    /\ storedIdle(telegram_sessions, chatIdString(555))
    /\ \E i \in telegramTickets(chatIdString(555)) :
         /\ grievances[i].ticket_number = proc[uid].reply.ticket
         /\ trackingStage(grievances[i].status, grievances[i].complaint_status)
              = "submitted"

\* C25: every ticket write that is attempted (a submit callback whose session
\* passes the writer's precondition, the acknowledgment call not raising) adds
\* a ticket whose number differs from every number already stored: none fails on
\* the UNIQUE ticket_number constraint, whatever the clock reads.
C25_TicketNumbersNeverCollide ==
  [][\A uid \in UpdateIds, outcome \in ApiOutcomes :
        (/\ proc[uid].pc = "answer"
         /\ proc[uid].data = D_submit
         /\ ~submitPreconditionFails(proc[uid].session)
         /\ outcome # "throw"
         /\ AnswerDone(uid, outcome))
          => /\ Len(grievances') = Len(grievances) + 1
             /\ \A i \in 1..Len(grievances) :
                  grievances[i].ticket_number
                    # grievances'[Len(grievances')].ticket_number
             /\ proc'[uid].error = ""]_vars

\* C26: when a submit callback is handled whose session fails the writer's
\* precondition (no account id, or a draft without category, description or
\* location), the tickets and the stored sessions stay as they were, the writer
\* returns no ticket, and the reply handed to the chat is never the success
\* reply: it is the "unknown" reply whenever the handler gets to reply.
C26_SubmitWithoutPrecondition ==
  [][\A uid \in UpdateIds, outcome \in ApiOutcomes :
        (/\ proc[uid].pc = "answer"
         /\ proc[uid].data = D_submit
         /\ submitPreconditionFails(proc[uid].session)
         /\ AnswerDone(uid, outcome))
          => /\ grievances' = grievances
             /\ telegram_sessions' = telegram_sessions
             /\ hist'[uid].wrote = hist[uid].wrote
             /\ proc'[uid].reply.key # "submitted"
             /\ outcome # "throw" => proc'[uid].reply.key = "unknown"]_vars

\* C26 witness: a submit callback was handled for a session still waiting for
\* its location: the handler is sending the "unknown" reply, it wrote no
\* ticket, and the stored session still waits for the location with its draft.
C26_Witness ==
  \E uid \in UpdateIds :
    /\ proc[uid].pc = "send" /\ proc[uid].reply.key = "unknown"
    /\ hist[uid].wrote = 0
    /\ telegram_sessions[chatIdString(555)].state = "awaiting_location"
    /\ Has(parseDraft(telegram_sessions[chatIdString(555)].draft_json), "description")
    /\ telegramTickets(chatIdString(555)) = {}

\* C27: when the ticket INSERT of a submit callback fails, for a session that
\* was loaded in awaiting_confirmation and is still stored as loaded, the
\* tickets and the stored sessions are as before: the chat's session is still
\* awaiting_confirmation with its complete draft, and submitTelegramComplaint
\* applied to the session a later callback would load writes the ticket.
C27_FailedInsertKeepsDraft ==
  [][\A uid \in UpdateIds :
        (/\ proc[uid].pc = "answer"
         /\ proc[uid].session.state = "awaiting_confirmation"
         /\ proc[uid].session.chatId \in DOMAIN telegram_sessions
         /\ telegram_sessions[proc[uid].session.chatId] = sessionRow(proc[uid].session)
         /\ \/ SubmitInsertFails(uid)
            \/ \E outcome \in ApiOutcomes :
                 AnswerDone(uid, outcome) /\ proc'[uid].error = "insert")
          => LET c == proc[uid].session.chatId
                 later == getTelegramSession(telegram_sessions', c).session
                 retry == submitTelegramComplaint(later, c, telegram_sessions',
                                                  grievances', clock')
             IN /\ grievances' = grievances
                /\ telegram_sessions' = telegram_sessions
                /\ telegram_sessions'[c].state = "awaiting_confirmation"
                /\ later.draft = proc[uid].session.draft
                /\ ~submitPreconditionFails(later)
                /\ retry.ticket # NoTicket /\ ~retry.threw
                /\ Len(retry.grievances) = Len(grievances) + 1]_vars

\* C27 witness: the INSERT of a submit callback has failed and the error is in
\* the webhook's catch; no ticket of the chat exists and the stored session is
\* still awaiting_confirmation with category, description and location.
C27_Witness ==
  \E uid \in UpdateIds :
    /\ proc[uid].pc = "caught" /\ proc[uid].error = "insert"
    /\ hist[uid].wrote = 0
    /\ telegramTickets(chatIdString(555)) = {}
    /\ telegram_sessions[chatIdString(555)].state = "awaiting_confirmation"
    /\ LET d == parseDraft(telegram_sessions[chatIdString(555)].draft_json)
       IN Has(d, "categoryId") /\ Has(d, "description") /\ Has(d, "location")

\* the stored session of chat 555 after k steps of the standard conversation
\* (/start, "en", cat:3, a 10-character description, a 3-character location,
\* confirm:submit), and its draft
traceSession(k) == Stored(k).sessions[chatIdString(555)]
traceDraft(k) == parseDraft(traceSession(k).draft_json)
traceTickets ==
  {i \in 1..Len(Stored(6).grievances) :
     /\ Stored(6).grievances[i].source_channel = "telegram"
     /\ Stored(6).grievances[i].source_user_id = chatIdString(555)}

\* the handlers applied one after the other give the states the trace names
traceStages ==
  /\ traceSession(1).state = "awaiting_language"
  /\ traceSession(1).draft_json = stringifyDraft(EmptyDraft)
  /\ traceSession(2).state = "awaiting_category"
  /\ traceSession(2).user_id # NoUser
  /\ Stored(2).users[traceSession(2).user_id].telegram_chat_id = chatIdString(555)
  /\ traceSession(3).state = "awaiting_description"
  /\ traceDraft(3)["categoryId"] = 3
  /\ traceSession(4).state = "awaiting_location"
  /\ Len(traceDraft(4)["description"]) >= 10
  /\ traceSession(5).state = "awaiting_confirmation"
  /\ traceDraft(5)["categoryName"] = "Street Lights"
  /\ traceDraft(5)["location"] = <<"E","n","g">>
  /\ traceSession(6).state = "idle"
  /\ traceSession(6).draft_json = stringifyDraft(EmptyDraft)
  /\ Cardinality(traceTickets) = 1
  /\ \A i \in traceTickets :
       trackingStage(Stored(6).grievances[i].status,
                     Stored(6).grievances[i].complaint_status) = "submitted"

\* C28: the end-to-end trace of one chat.  Each delivery of the trace, having
\* passed the credential and secret checks, is taken in by the route (none is
\* answered with an error before its handler runs); the handlers applied in
\* the trace's order give awaiting_language, awaiting_category with an account
\* bound, awaiting_description, awaiting_location, awaiting_confirmation with
\* the category name and the location in the draft, and after submit one
\* ticket of the chat at stage submitted with the session idle; the submit of
\* a session awaiting confirmation adds exactly one ticket when its calls
\* succeed; and a delivery answered as a duplicate changes no ticket and no
\* session.
C28_EndToEndTrace ==
  [][/\ traceStages
     /\ \A uid \in UpdateIds, header \in SecretHeaders :
          ~WebhookSelectThrows(uid, header)
     /\ \A uid \in UpdateIds, header \in SecretHeaders :
          WebhookDuplicate(uid, header)
            => /\ grievances' = grievances
               /\ telegram_sessions' = telegram_sessions
               /\ response'.duplicate
     /\ \A uid \in UpdateIds, outcome \in ApiOutcomes :
          (/\ proc[uid].pc = "answer" /\ proc[uid].data = D_submit
           /\ proc[uid].session.state = "awaiting_confirmation"
           /\ telegram_sessions[proc[uid].session.chatId] = sessionRow(proc[uid].session)
           /\ outcome # "throw"
           /\ AnswerDone(uid, outcome))
            => /\ Len(grievances') = Len(grievances) + 1
               /\ storedIdle(telegram_sessions', proc[uid].session.chatId)]_vars

\* C29: the reply to a status query of a chat for a ticket number reports a
\* status only when a stored ticket with that number was written through the
\* chat channel by the same chat, and then it is that ticket's; for a number
\* no such ticket has (a ticket of the web channel included) the reply is the
\* not-found reply.  For every stored ticket not written by the chat, and also
\* when it is taken as written through the chat channel by another chat, the
\* reply to a query for its number is the same not-found reply whatever status
\* the ticket holds.
C29_StatusQueryIsScoped ==
  [][\A uid \in UpdateIds, header \in SecretHeaders, upd \in MessageUpdates :
        (upd.text \in {T_statusT, T_statusW} /\ WebhookMessage(uid, header, upd))
          => LET c == chatIdString(upd.chat)
                 ticket == secondWord(trim(upd.text))
                 own == {i \in telegramTickets(c) : grievances[i].ticket_number = ticket}
             IN /\ IF own # {}
                   THEN /\ proc'[uid].reply.key = "statusResult"
                        /\ proc'[uid].reply.ticket = ticket
                        /\ \E i \in own : proc'[uid].reply.status = grievances[i].status
                   ELSE proc'[uid].reply = Reply("statusNotFound")
                /\ \A i \in 1..Len(grievances), st \in SchemaStatuses,
                      owner \in {<<"web">>, <<"7","7","7">>} :
                     i \notin telegramTickets(c)
                       => LET others ==
                                [grievances EXCEPT
                                   ![i].status = st,
                                   ![i].source_channel =
                                      IF owner = <<"web">> THEN @ ELSE "telegram",
                                   ![i].source_user_id =
                                      IF owner = <<"web">> THEN @ ELSE owner]
                          IN handleTelegramMessage(
                               statusQuery(grievances[i].ticket_number),
                               users, telegram_sessions, others).reply
                               = Reply("statusNotFound")]_vars

\* C29 witness: chat 555, whose own ticket TGM-0 is stored (a query for it
\* would report its status), has asked for the status of the stored web
\* ticket GRV-PNE001 and is being sent the not-found reply.
C29_Witness ==
  \E uid \in UpdateIds :
    /\ proc[uid].pc = "send" /\ proc[uid].reply = Reply("statusNotFound")
    /\ \E i \in telegramTickets(chatIdString(555)) :
         grievances[i].ticket_number = ticketNumber(0)
    /\ \E i \in 1..Len(grievances) :
         /\ grievances[i].ticket_number = secondWord(T_statusW)
         /\ i \notin telegramTickets(chatIdString(555))

\* C30: the status the chat's status query reports for a ticket is the stage
\* trackingStage gives for the ticket's stored status and complaint status, one
\* of the four canonical stages, and equals the stage the track endpoint
\* computed for the same record.
C30_ChatReportsCanonicalStage ==
  /\ nChat # NULL => nChat = trackingStage(nLegacy, nCoarse) /\ nChat \in Stages
  /\ (nChat # NULL /\ nServer # NULL) => nChat = nServer

\* C31: every step in which identity resolution runs for a chat stores in the
\* chat's session the id it returned, and: if an account was bound to the chat,
\* that id is the bound account's and the accounts are unchanged; otherwise, if
\* an account carried the chat's placeholder email, that id is this account's,
\* the only change is that the account is now bound to the chat, and no account
\* is added; otherwise one account is added, carrying the placeholder email and
\* the binding, and its id is returned.
C31_ResolutionLookupOrder ==
  [][\A c \in ChatStrings :
        resolutions'[c] = resolutions[c] + 1
          => LET bound == boundUsers(c)
                 byEmail == {i \in 1..Len(users) : users[i].email = fallbackEmail(c)}
                 id == telegram_sessions'[c].user_id
             IN IF bound # {}
                THEN id \in bound /\ users' = users
                ELSE IF byEmail # {}
                THEN /\ id \in byEmail
                     /\ Len(users') = Len(users)
                     /\ users' = [users EXCEPT ![id].telegram_chat_id = c]
                ELSE /\ id = Len(users) + 1
                     /\ Len(users') = Len(users) + 1
                     /\ SubSeq(users', 1, Len(users)) = users
                     /\ users'[id].email = fallbackEmail(c)
                     /\ users'[id].telegram_chat_id = c]_vars

\* C31 witness: identity resolution has run once for chat 555, whose account
\* was bound before (it owns the ticket TGM-0 written earlier): the resolution
\* returned that account and there is still one account of the chat.
C31_Witness ==
  /\ resolutions[chatIdString(555)] = 1
  /\ Cardinality(accountsOf(chatIdString(555))) = 1
  /\ resolvedIds[chatIdString(555)] = boundUsers(chatIdString(555))
  /\ \E i \in telegramTickets(chatIdString(555)) :
       /\ grievances[i].ticket_number = ticketNumber(0)
       /\ grievances[i].citizen_id \in resolvedIds[chatIdString(555)]

\* a step of the handling of update uid: its dispatch, or the continuation of
\* its handler after an outbound call
handlingStep(uid) ==
  \/ \E header \in SecretHeaders, upd \in MessageUpdates : WebhookMessage(uid, header, upd)
  \/ \E header \in SecretHeaders, upd \in CallbackUpdates : WebhookCallback(uid, header, upd)
  \/ \E outcome \in ApiOutcomes : AnswerDone(uid, outcome)
  \/ \E outcome \in ApiOutcomes : SendDone(uid, outcome)
  \/ SubmitInsertFails(uid)

\* C32: whenever a step of the handling of update u changes a session, an
\* account or a ticket, runs identity resolution, or leaves the handler waiting
\* for an outbound call, the ledger holds u's entry; a step that continues the
\* handler after an outbound call finds the entry already there; and no step
\* removes an entry or adds a second row for an identifier.
C32_LedgerBeforeEffects ==
  [][/\ \A u \in UpdateIds :
          /\ telegram_updates[u] >= 1 => telegram_updates'[u] = telegram_updates[u]
          /\ telegram_updates'[u] <= 1
     /\ \A uid \in UpdateIds :
          handlingStep(uid)
            => /\ (\/ <<users, telegram_sessions, grievances>>'
                        # <<users, telegram_sessions, grievances>>
                   \/ resolutions' # resolutions
                   \/ proc'[uid].pc \in {"answer", "send"})
                    => telegram_updates'[uid] = 1
               /\ proc[uid].pc \in {"answer", "send"} => telegram_updates[uid] = 1]_vars

\* C32 witness: the process died while update 1 was being handled and update 1
\* was delivered again: its ledger entry, written before the handler ran, is
\* still there.
C32_Witness ==
  /\ proc[1].pc = "redelivered"
  /\ hist[1].dispatched = 1
  /\ telegram_updates[1] = 1

\* C33: every step in which a submit callback adds a ticket, the session it
\* acts on being the one stored for the chat, finds that stored session in
\* awaiting_confirmation: a submit callback handled in any other state writes
\* no ticket.
C33_TicketOnlyFromConfirmation ==
  [][\A uid \in UpdateIds, outcome \in ApiOutcomes :
        (/\ proc[uid].pc = "answer"
         /\ proc[uid].data = D_submit
         /\ proc[uid].session.chatId \in DOMAIN telegram_sessions
         /\ telegram_sessions[proc[uid].session.chatId] = sessionRow(proc[uid].session)
         /\ AnswerDone(uid, outcome)
         /\ Len(grievances') > Len(grievances))
          => telegram_sessions[proc[uid].session.chatId].state
               = "awaiting_confirmation"]_vars

\* C34: every stored session whose state is awaiting_category,
\* awaiting_description, awaiting_location or awaiting_confirmation carries an
\* account id (user_id is not null), so that a submit in awaiting_confirmation
\* never fails for lack of an account.
C34_ActiveSessionHasAccount ==
  \A c \in DOMAIN telegram_sessions :
    telegram_sessions[c].state \in {"awaiting_category", "awaiting_description",
                                    "awaiting_location", "awaiting_confirmation"}
      => telegram_sessions[c].user_id # NoUser

\* C35: the stored draft is as complete as the stored state says: in
\* awaiting_description it has a category, in awaiting_location a category and
\* a description, in awaiting_confirmation a category, a description and a
\* location; in idle and in awaiting_language it is empty.
C35_DraftMatchesState ==
  \A c \in DOMAIN telegram_sessions :
    LET row == telegram_sessions[c]
        draft == parseDraft(row.draft_json)
        has(k) == Has(draft, k)
    IN /\ row.state = "awaiting_description" => has("categoryId")
       /\ row.state = "awaiting_location"
            => has("categoryId") /\ has("description")
       /\ row.state = "awaiting_confirmation"
            => has("categoryId") /\ has("description") /\ has("location")
       /\ row.state \in {"idle", "awaiting_language"} => draft = EmptyDraft

\* C35 witness: a chat that chose Hindi and then a category by callbacks is
\* stored in awaiting_description with that category in its draft.
C35_Witness ==
  /\ chatIdString(555) \in DOMAIN telegram_sessions
  /\ telegram_sessions[chatIdString(555)].state = "awaiting_description"
  /\ telegram_sessions[chatIdString(555)].language = <<"h","i">>
  /\ Has(parseDraft(telegram_sessions[chatIdString(555)].draft_json), "categoryId")
  /\ hist[1].dispatched = 1 /\ hist[2].dispatched = 1

\* C36: once a cancel has committed (the chat's stored session is idle with an
\* empty draft and the chat has no ticket), a submit or language callback (which
\* add nothing to a draft themselves) that loaded the session with its draft
\* before the cancel and resumes after it writes no ticket from that draft and
\* does not put the draft back into the stored session.
C36_CancelledDraftStaysCancelled ==
  [][\A uid \in UpdateIds, outcome \in ApiOutcomes :
        LET c == proc[uid].session.chatId IN
        (/\ proc[uid].pc = "answer"
         /\ proc[uid].data \in {D_submit, D_langHi}
         /\ proc[uid].session.draft # EmptyDraft
         /\ c \in DOMAIN telegram_sessions
         /\ telegram_sessions[c].state = "idle"
         /\ telegram_sessions[c].draft_json = stringifyDraft(EmptyDraft)
         /\ telegramTickets(c) = {}
         /\ AnswerDone(uid, outcome))
          => /\ grievances' = grievances
             /\ telegram_sessions'[c].draft_json = stringifyDraft(EmptyDraft)]_vars

\* C37: every ticket written through the chat channel is owned by the account
\* the identity resolver returns for the ticket's source chat id: the one
\* account bound to that chat id.
C37_ChatTicketOwner ==
  \A i \in 1..Len(grievances) :
    grievances[i].source_channel = "telegram"
      => /\ boundUsers(grievances[i].source_user_id) = {grievances[i].citizen_id}
         /\ ensureTelegramCitizen(users, grievances[i].source_user_id).id
              = grievances[i].citizen_id

\* C37 witness: a ticket written during the run (its number is not the stored
\* one) by a chat whose account was created for it, owned by that account.
C37_Witness ==
  \E i \in 1..Len(grievances) :
    /\ grievances[i].source_channel = "telegram"
    /\ grievances[i].ticket_number # ticketNumber(0)
    /\ grievances[i].citizen_id > Len(SeedUsers)
    /\ users[grievances[i].citizen_id].telegram_chat_id = grievances[i].source_user_id

\* C38: for every ticket the program's own operations can produce (the seed,
\* the web grievance and complaint creations, the chat writer, and any
\* sequence of authority status changes on them) the server's tracking stage
\* and the client's normalizeStatus are the same stage.
C38_ReachableTicketsAgree ==
  \A i \in 1..Len(grievances) :
    /\ trackingStage(grievances[i].status, grievances[i].complaint_status)
         = normalizeStatus(grievances[i].status, grievances[i].complaint_status)
    /\ trackingStage(grievances[i].status, grievances[i].complaint_status) \in Stages

\* C38 witness: a chat ticket the authority accepted, a seeded ticket the
\* authority closed and a web ticket still as created, side by side.
C38_Witness ==
  /\ \E i \in 1..Len(grievances) :
        /\ grievances[i].source_channel = "telegram"
        /\ grievances[i].status = "under_review"
        /\ grievances[i].complaint_status = "accepted"
  /\ grievances[1].status = "closed" /\ grievances[1].complaint_status = "closed"
  /\ \E i \in 1..Len(grievances) :
        /\ grievances[i].ticket_number = webTicketNumber(1)
        /\ grievances[i].status = "submitted"
        /\ grievances[i].complaint_status = "pending"

\* C39: a successful authority status update to X (accepted, in_progress or
\* closed), from any prior pair of values, rewrites the legacy and the coarse
\* value in the same update (the coarse value to X, the legacy value to a
\* candidate of X), and afterwards the server's tracking stage and the client's
\* normalizeStatus both equal X.
C39_PatchSetsCanonicalStage ==
  [][\A next \in AuthorityStatuses :
        AuthorityPatch(next)
          => /\ nCoarse' = next
             /\ \E i \in 1..Len(statusMap(next)) : nLegacy' = statusMap(next)[i]
             /\ trackingStage(nLegacy', nCoarse') = next
             /\ normalizeStatus(nLegacy', nCoarse') = next]_vars

\* C39 witness: a record the chat had reported on was then closed by the
\* authority (the update cleared the chat's reading), and the track endpoint and
\* the dashboard both computed the stage closed from it.
C39_Witness ==
  /\ DOMAIN telegram_sessions # {}
  /\ nChat = NULL
  /\ nLegacy = "closed" /\ nCoarse = "closed"
  /\ nServer = "closed" /\ nClient = "closed"
====
